---------------------------- MODULE Spec2Model ----------------------------
(***************************************************************************)
(* Model of the medal geometry pipeline of vulk-ia: the manufacturability  *)
(* validators (constraints.py), the shape and motif factories (shapes.py,  *)
(* motifs.py) and the composer (composer.py).                              *)
(*                                                                         *)
(* Units.  Every length is an integer number of half-millimetres (H), so   *)
(* that the source's 4.5 mm, 0.5 mm, radius = diameter / 2 and 1.5 * m are *)
(* exact: 1 mm = 2 H.  Where the source divides or multiplies by a         *)
(* fraction the model compares the cross-multiplied integers.              *)
(*                                                                         *)
(* Geometry.  A shapely Polygon is modelled by the outlines whose          *)
(* bounding box, area, erosion, containment and boundary distance are      *)
(* exact in integer arithmetic: the rounded box (an axis-aligned box with  *)
(* circular corners of radius `corner`), of which the disc is the case     *)
(* corner = half width = half height; and an invalid (self-intersecting)   *)
(* ring, of which only the bounding box is known.                          *)
(***************************************************************************)
EXTENDS Integers, Sequences, FiniteSets, TLC

\* ------------------------------------------------------------------ values

\* Optional[T]: None is the empty tuple, a value v is <<v>>; a coordinate
\* pair (x, y) is the tuple <<x, y>> itself.
None == <<>>

Abs(x) == IF x < 0 THEN -x ELSE x

Max2(x, y) == IF x >= y THEN x ELSE y

Min2(x, y) == IF x <= y THEN x ELSE y

\* Python truthiness of a float: 0.0 is falsy.
FloatTruthy(x) == x # 0

\* Python truthiness of Optional[float]: None and 0.0 are falsy.
OptFloatTruthy(o) == Len(o) > 0 /\ o[1] # 0

\* Mutant: the pair (0, 0) is taken for no position.
OptPairTruthy_ZeroIsFalsy(o) == Len(o) > 0 /\ (o[1] # 0 \/ o[2] # 0)

\* Python truthiness of Optional[Tuple[float, float]]: None is falsy, every
\* pair (a non-empty tuple) is truthy whatever its coordinates.
OptPairTruthy(o) == Len(o) > 0

\* ------------------------------------------------------- TrotecConstraints

\* TrotecConstraints(): the fields the validators read, in H.
DEFAULT_CONSTRAINTS ==
  [ max_width              |-> 1200,
    max_height             |-> 600,
    min_bridge_width       |-> 4,
    min_medal_diameter     |-> 80,
    max_medal_diameter     |-> 240,
    ribbon_hole_diameter   |-> 8,
    ribbon_hole_min_margin |-> 10,
    min_text_height        |-> 6 ]

\* ValidationResult(is_valid, errors, warnings).
ValidationResult(is_valid, errors, warnings) ==
  [ is_valid |-> is_valid, errors |-> errors, warnings |-> warnings ]

\* One entry of an error or warning list: the message and the measured
\* value the f-string formats into it (0 when it formats none the model
\* computes).
Entry(msg, val) == [ msg |-> msg, val |-> val ]

\* ------------------------------------------------------ geometry primitives

\* A Polygon: validity, bounding box and corner radius.
Polygon(valid, minx, miny, maxx, maxy, corner) ==
  [ valid |-> valid, minx |-> minx, miny |-> miny,
    maxx |-> maxx, maxy |-> maxy, corner |-> corner ]

\* Point(x, y).buffer(radius): the disc of that radius.
PointBuffer(x, y, radius) ==
  Polygon(TRUE, x - radius, y - radius, x + radius, y + radius, radius)

PolyWidth(p) == p.maxx - p.minx

PolyHeight(p) == p.maxy - p.miny

\* 28 * area(p) in H^2, with corner2 twice the corner radius and pi = 22/7:
\* area = w * h - (4 - pi) * corner^2.
Area28(w, h, corner2) == 28 * w * h - 6 * corner2 * corner2

PolyArea28(p) == Area28(PolyWidth(p), PolyHeight(p), 2 * p.corner)

\* polygon.buffer(-bridge / 2): empty exactly when the erosion eats a whole
\* dimension.
ErodedIsEmpty(p, bridge) == Min2(PolyWidth(p), PolyHeight(p)) <= bridge

\* 28 * area of polygon.buffer(-bridge / 2), when it is not empty: each
\* dimension shrinks by bridge, the corner radius by bridge / 2.
ErodedArea28(p, bridge) ==
  Area28(PolyWidth(p) - bridge, PolyHeight(p) - bridge,
         Max2(2 * p.corner - bridge, 0))

\* Twice the offsets of point (x, y) past the straight part of the outline,
\* along each axis.
QX2(p, x) == Abs(2 * x - (p.minx + p.maxx)) - (PolyWidth(p) - 2 * p.corner)

QY2(p, y) == Abs(2 * y - (p.miny + p.maxy)) - (PolyHeight(p) - 2 * p.corner)

InCornerZone(p, x, y) == QX2(p, x) > 0 /\ QY2(p, y) > 0

CornerDist2Sq(p, x, y) == QX2(p, x) * QX2(p, x) + QY2(p, y) * QY2(p, y)

\* medal_polygon.contains(Point(x, y).buffer(diameter / 2)) for a valid
\* outline: the closed disc lies in the closed outline.
ContainsDisc(p, x, y, diameter) ==
  IF InCornerZone(p, x, y)
  THEN /\ 2 * p.corner >= diameter
       /\ CornerDist2Sq(p, x, y)
            <= (2 * p.corner - diameter) * (2 * p.corner - diameter)
  ELSE Max2(QX2(p, x), QY2(p, y)) - 2 * p.corner <= -diameter

\* medal_polygon.exterior.distance(Point(x, y)) < min_distance, with
\* min2 = 2 * min_distance, for a valid outline.
DistanceLess(p, x, y, min2) ==
  IF InCornerZone(p, x, y)
  THEN /\ \/ 2 * p.corner - min2 < 0
          \/ CornerDist2Sq(p, x, y)
               > (2 * p.corner - min2) * (2 * p.corner - min2)
       /\ CornerDist2Sq(p, x, y)
            < (2 * p.corner + min2) * (2 * p.corner + min2)
  ELSE Abs(Max2(QX2(p, x), QY2(p, y)) - 2 * p.corner) < min2

\* What the geometry library answers for the two hole predicates on an
\* invalid (self-intersecting) ring, of which the model knows the bounding
\* box alone.  contains() is false when the disc's box is not inside the
\* ring's box, and the distance to the ring is at least the distance to its
\* box; beyond that either answer may come back.  On a valid outline the
\* answers are computed and the oracle is not consulted.
LibAnswers(p, hole_center, constraints) ==
  LET x    == hole_center[1]
      y    == hole_center[2]
      d    == constraints.ribbon_hole_diameter
      min2 == d + 2 * constraints.ribbon_hole_min_margin
      boxed == /\ 2 * p.minx <= 2 * x - d
               /\ 2 * x + d <= 2 * p.maxx
               /\ 2 * p.miny <= 2 * y - d
               /\ 2 * y + d <= 2 * p.maxy
      far   == \/ 2 * (x - p.maxx) >= min2
               \/ 2 * (p.minx - x) >= min2
               \/ 2 * (y - p.maxy) >= min2
               \/ 2 * (p.miny - y) >= min2
  IN  IF p.valid
      THEN {[ contains |-> FALSE, near |-> FALSE ]}
      ELSE [ contains : IF boxed THEN BOOLEAN ELSE { FALSE },
             near : IF far THEN { FALSE } ELSE BOOLEAN ]

\* --------------------------------------------------------------- validators

\* A list holding `entry` when `cond` holds: one `if cond: list.append(entry)`.
AppendIf(cond, entry) == IF cond THEN << entry >> ELSE << >>

\* Mutant: the medal size is taken from the smaller side.
DimensionErrors_SmallerSide(polygon, constraints) ==
  LET width   == PolyWidth(polygon)
      height  == PolyHeight(polygon)
      min_dim == Min2(width, height)
  IN    AppendIf(width > constraints.max_width, Entry("Largeur > max", width))
     \o AppendIf(height > constraints.max_height,
                 Entry("Hauteur > max", height))
     \o AppendIf(min_dim < constraints.min_medal_diameter,
                 Entry("Medaille trop petite", min_dim))
     \o AppendIf(min_dim > constraints.max_medal_diameter,
                 Entry("Medaille trop grande", min_dim))

\* validate_medal_shape, steps 2 and 3: the four dimension checks.
DimensionErrors(polygon, constraints) ==
  LET width   == PolyWidth(polygon)
      height  == PolyHeight(polygon)
      max_dim == Max2(width, height)
  IN    AppendIf(width > constraints.max_width, Entry("Largeur > max", width))
     \o AppendIf(height > constraints.max_height,
                 Entry("Hauteur > max", height))
     \o AppendIf(max_dim < constraints.min_medal_diameter,
                 Entry("Medaille trop petite", max_dim))
     \o AppendIf(max_dim > constraints.max_medal_diameter,
                 Entry("Medaille trop grande", max_dim))

\* Mutant: the outline is eroded by the whole bridge width.
ThinErrors_WholeBridge(polygon, constraints) ==
  AppendIf(ErodedIsEmpty(polygon, 2 * constraints.min_bridge_width),
           Entry("Forme trop fine", constraints.min_bridge_width))

\* validate_medal_shape, step 4: the erosion by min_bridge_width / 2.
ThinErrors(polygon, constraints) ==
  AppendIf(ErodedIsEmpty(polygon, constraints.min_bridge_width),
           Entry("Forme trop fine", constraints.min_bridge_width))

FragileWarnings(polygon, constraints) ==
  AppendIf(/\ ~ErodedIsEmpty(polygon, constraints.min_bridge_width)
           /\ 10 * ErodedArea28(polygon, constraints.min_bridge_width)
                < 3 * PolyArea28(polygon),
           Entry("Zones fragiles", 0))

\* validate_medal_shape, step 5: area below 500 mm^2 = 2000 H^2.
SmallAreaWarnings(polygon) ==
  AppendIf(PolyArea28(polygon) < 28 * 2000, Entry("Surface tres petite", 0))

\* Mutant: an invalid outline is reported and the other checks run on.
validate_medal_shape_NoEarlyReturn(polygon, constraints) ==
  LET invalid  == AppendIf(~polygon.valid, Entry("Geometrie invalide", 0))
      errors   == invalid \o DimensionErrors(polygon, constraints)
                    \o ThinErrors(polygon, constraints)
      warnings == FragileWarnings(polygon, constraints)
                    \o SmallAreaWarnings(polygon)
  IN  ValidationResult(Len(errors) = 0, errors, warnings)

\* Mutant: warnings block validity too.
validate_medal_shape_WarningsBlock(polygon, constraints) ==
  IF ~polygon.valid
  THEN ValidationResult(FALSE, << Entry("Geometrie invalide", 0) >>, << >>)
  ELSE LET errors   == DimensionErrors(polygon, constraints)
                         \o ThinErrors(polygon, constraints)
           warnings == FragileWarnings(polygon, constraints)
                         \o SmallAreaWarnings(polygon)
       IN  ValidationResult(Len(errors) = 0 /\ Len(warnings) = 0, errors,
                            warnings)

validate_medal_shape(polygon, constraints) ==
  IF ~polygon.valid
  THEN ValidationResult(FALSE, << Entry("Geometrie invalide", 0) >>, << >>)
  ELSE LET errors   == DimensionErrors(polygon, constraints)
                         \o ThinErrors(polygon, constraints)
           warnings == FragileWarnings(polygon, constraints)
                         \o SmallAreaWarnings(polygon)
       IN  ValidationResult(Len(errors) = 0, errors, warnings)

\* Mutant: the distance test is not strict.
validate_ribbon_hole_NonStrict(medal_polygon, hole_center, constraints, lib) ==
  LET diameter  == constraints.ribbon_hole_diameter
      min2      == diameter + 2 * constraints.ribbon_hole_min_margin
      contained == IF medal_polygon.valid
                   THEN ContainsDisc(medal_polygon, hole_center[1],
                                     hole_center[2], diameter)
                   ELSE lib.contains
      too_close == IF medal_polygon.valid
                   THEN DistanceLess(medal_polygon, hole_center[1],
                                     hole_center[2], min2 + 1)
                   ELSE lib.near
      errors    ==    AppendIf(~contained, Entry("Trou sort de la medaille", 0))
                   \o AppendIf(too_close, Entry("Trou trop pres du bord", 0))
  IN  ValidationResult(Len(errors) = 0, errors, << >>)

\* validate_ribbon_hole: the two independent `if`s; lib is the library's
\* answer on an invalid ring.
validate_ribbon_hole(medal_polygon, hole_center, constraints, lib) ==
  LET diameter  == constraints.ribbon_hole_diameter
      min2      == diameter + 2 * constraints.ribbon_hole_min_margin
      contained == IF medal_polygon.valid
                   THEN ContainsDisc(medal_polygon, hole_center[1],
                                     hole_center[2], diameter)
                   ELSE lib.contains
      too_close == IF medal_polygon.valid
                   THEN DistanceLess(medal_polygon, hole_center[1],
                                     hole_center[2], min2)
                   ELSE lib.near
      errors    ==    AppendIf(~contained, Entry("Trou sort de la medaille", 0))
                   \o AppendIf(too_close, Entry("Trou trop pres du bord", 0))
  IN  ValidationResult(Len(errors) = 0, errors, << >>)

\* Mutant: the readability threshold is not strict.
validate_engraving_text_NonStrict(text_height, constraints) ==
  LET m        == constraints.min_text_height
      errors   == AppendIf(text_height < m,
                           Entry("Texte trop petit", text_height))
      warnings == AppendIf(text_height >= m /\ 2 * text_height <= 3 * m,
                           Entry("Texte petit", text_height))
  IN  ValidationResult(Len(errors) = 0, errors, warnings)

\* validate_engraving_text: text_height < m, elif text_height < m * 1.5.
validate_engraving_text(text_height, constraints) ==
  LET m        == constraints.min_text_height
      errors   == AppendIf(text_height < m,
                           Entry("Texte trop petit", text_height))
      warnings == AppendIf(text_height >= m /\ 2 * text_height < 3 * m,
                           Entry("Texte petit", text_height))
  IN  ValidationResult(Len(errors) = 0, errors, warnings)

\* ------------------------------------------------------------------- shapes

\* class MedalShape(Enum).
MedalShape ==
  { "circle", "hexagon", "octagon", "shield", "star", "drop", "rectangle",
    "rounded_rectangle", "gear", "leaf" }

\* ShapeParams(width, height, rotation, corner_radius) with __post_init__:
\* a height of None becomes the width.
ShapeParams(width, height, rotation, corner_radius) ==
  [ width |-> width,
    height |-> IF height = None THEN width ELSE height[1],
    rotation |-> rotation,
    corner_radius |-> corner_radius ]

\* create_circle(diameter): Point(0, 0).buffer(diameter / 2).
create_circle(diameter) == PointBuffer(0, 0, diameter \div 2)

\* create_rounded_rectangle: box(-w/2 + r, -h/2 + r, w/2 - r, h/2 - r), whose
\* sides are |w - 2r| and |h - 2r| long, grown by r with round joins.
create_rounded_rectangle(width, height, corner_radius) ==
  LET w == Abs(width - 2 * corner_radius) + 2 * corner_radius
      h == Abs(height - 2 * corner_radius) + 2 * corner_radius
  IN  Polygon(TRUE, -(w \div 2), -(h \div 2), w \div 2, h \div 2,
              corner_radius)

\* The outlines below other than discs and rounded boxes are known by their
\* bounding box alone, to the half millimetre (rounded towards the center):
\* get_shape returns them, and no hole or erosion is computed on them.

\* value * ratio / 10000, rounded down.
Scaled(value, ratio) == (value * ratio) \div 10000

\* create_hexagon(diameter), flat_top: create_regular_polygon(6, diameter, 0),
\* vertices at 0, 60, .. degrees on the circle of that diameter.
create_hexagon(diameter) ==
  LET radius == diameter \div 2
  IN  Polygon(TRUE, -radius, -Scaled(radius, 8660), radius,
              Scaled(radius, 8660), 0)

\* create_octagon(diameter): create_regular_polygon(8, diameter, 22.5),
\* vertices at 22.5, 67.5, .. degrees, none of them on an axis.
create_octagon(diameter) ==
  LET reach == Scaled(diameter \div 2, 9239)
  IN  Polygon(TRUE, -reach, -reach, reach, reach, 0)

\* create_star(outer_diameter=...), 5 points: tips at 90, 162, 234, 306 and
\* 18 degrees on the circle of that diameter.
create_star(outer_diameter) ==
  LET outer_radius == outer_diameter \div 2
  IN  Polygon(TRUE, -Scaled(outer_radius, 9511), -Scaled(outer_radius, 8090),
              Scaled(outer_radius, 9511), outer_radius, 0)

\* create_shield(width, height): the top edge spans the width, the point is
\* at -height/2.
create_shield(width, height) ==
  Polygon(TRUE, -(width \div 2), -(height \div 2), width \div 2,
          height \div 2, 0)

\* create_drop(width, height): a half circle of diameter width resting on
\* -height/2, then the sides drawn from the top of that circle to the tip at
\* height/2 (from above it when height < width).
create_drop(width, height) ==
  Polygon(TRUE, -(width \div 2), -(height \div 2), width \div 2,
          IF height >= width
          THEN height \div 2
          ELSE width - height \div 2 - (width - height) \div 8,
          0)

\* create_leaf(width, height): the sides bulge to
\* width/2 * sin(pi * t) * (1 - 0.3 * t), at most 0.8551 * width/2.
create_leaf(width, height) ==
  Polygon(TRUE, -Scaled(width \div 2, 8551), -(height \div 2),
          Scaled(width \div 2, 8551), height \div 2, 0)

\* create_gear's default tooth_depth, 5.0 mm.
ToothDepth == 10

\* create_gear(outer_diameter): outer vertices at 7.5 and 22.5 degrees past
\* every 30 degrees, inner vertices at inner_radius = outer_radius -
\* tooth_depth on the axes.  For outer_diameter <= 2 * tooth_depth the inner
\* radius is not positive, every inner vertex is mirrored through the origin
\* (or falls on it) and the ring crosses itself (not is_valid).
create_gear(outer_diameter) ==
  LET outer_radius == outer_diameter \div 2
      reach == Max2(Abs(outer_radius - ToothDepth),
                    Scaled(outer_radius, 9914))
  IN  Polygon(outer_diameter > 2 * ToothDepth, -reach, -reach, reach, reach,
              0)

\* Mutant: the tooth face is centred on the tooth, its fall starting at 70%.
create_gear_points_EarlyFall(outer_diameter, n_teeth) ==
  LET outer_radius == outer_diameter \div 2
      inner_radius == outer_radius - ToothDepth
      at           == << 0, 20, 25, 70, 80 >>
      radius       == << inner_radius, inner_radius, outer_radius,
                         outer_radius, inner_radius >>
  IN  [ n \in 1 .. 5 * n_teeth |->
          [ angle  |-> 100 * ((n - 1) \div 5) + at[((n - 1) % 5) + 1],
            radius |-> radius[((n - 1) % 5) + 1] ] ]

\* create_gear(outer_diameter, n_teeth): the points handed to Polygon, in
\* order.  Each is at radius * (cos a, sin a); its angle a is kept in
\* hundredths of tooth_angle = 2 * pi / n_teeth, counted from -pi/2:
\* a1 .. a5 of tooth i are at i * 100 + 0, 20, 25, 75 and 80.
create_gear_points(outer_diameter, n_teeth) ==
  LET outer_radius == outer_diameter \div 2
      inner_radius == outer_radius - ToothDepth
      at           == << 0, 20, 25, 75, 80 >>
      radius       == << inner_radius, inner_radius, outer_radius,
                         outer_radius, inner_radius >>
  IN  [ n \in 1 .. 5 * n_teeth |->
          [ angle  |-> 100 * ((n - 1) \div 5) + at[((n - 1) % 5) + 1],
            radius |-> radius[((n - 1) % 5) + 1] ] ]

\* shapely.affinity.rotate(polygon, degrees, origin=(0, 0)), counter-
\* clockwise, for the quarter turns (which keep the outline axis-aligned).
Rotate(p, degrees) ==
  CASE degrees % 360 = 0   -> p
    [] degrees % 360 = 90  ->
         Polygon(p.valid, -p.maxy, p.minx, -p.miny, p.maxx, p.corner)
    [] degrees % 360 = 180 ->
         Polygon(p.valid, -p.maxx, -p.maxy, -p.minx, -p.miny, p.corner)
    [] degrees % 360 = 270 ->
         Polygon(p.valid, p.miny, -p.maxx, p.maxy, -p.minx, p.corner)

\* The KeyError of shape_creators[shape_type] for a key it does not hold.
KeyError == [ raised |-> "KeyError" ]

Raised(r) == "raised" \in DOMAIN r

\* The number of vertices of the ring each creator builds: 4 * 64 for the
\* disc (resolution=64), one per side or tip, the point lists of the drawn
\* outlines, 4 * 16 and the 4 sides' ends for the rounded box.
RingVertices(shape_type) ==
  CASE shape_type = "circle" -> 256
    [] shape_type = "hexagon" -> 6
    [] shape_type = "octagon" -> 8
    [] shape_type = "star" -> 10
    [] shape_type = "shield" -> 35
    [] shape_type = "drop" -> 32
    [] shape_type \in { "rectangle", "rounded_rectangle" } -> 68
    [] shape_type = "gear" -> 60
    [] shape_type = "leaf" -> 48

\* Mutant: a key the table does not hold falls back to the circle.
get_shape_DefaultCircle(shape_type, params) ==
  IF shape_type \notin MedalShape
  THEN create_circle(params.width)
  ELSE LET polygon ==
             CASE shape_type = "circle" -> create_circle(params.width)
               [] shape_type = "hexagon" -> create_hexagon(params.width)
               [] shape_type = "octagon" -> create_octagon(params.width)
               [] shape_type = "star" -> create_star(params.width)
               [] shape_type = "shield" ->
                    create_shield(params.width, params.height)
               [] shape_type = "drop" ->
                    create_drop(params.width, params.height)
               [] shape_type = "leaf" ->
                    create_leaf(params.width, params.height)
               [] shape_type = "rectangle" ->
                    create_rounded_rectangle(
                      params.width, params.height,
                      IF FloatTruthy(params.corner_radius)
                      THEN params.corner_radius ELSE 10)
               [] shape_type = "rounded_rectangle" ->
                    create_rounded_rectangle(
                      params.width, params.height,
                      IF FloatTruthy(params.corner_radius)
                      THEN params.corner_radius ELSE 16)
               [] shape_type = "gear" -> create_gear(params.width)
       IN  IF params.rotation # 0
           THEN Rotate(polygon, params.rotation)
           ELSE polygon

\* get_shape: the dispatch table, then the rotation.
get_shape(shape_type, params) ==
  IF shape_type \notin MedalShape
  THEN KeyError
  ELSE LET polygon ==
             CASE shape_type = "circle" -> create_circle(params.width)
               [] shape_type = "hexagon" -> create_hexagon(params.width)
               [] shape_type = "octagon" -> create_octagon(params.width)
               [] shape_type = "star" -> create_star(params.width)
               [] shape_type = "shield" ->
                    create_shield(params.width, params.height)
               [] shape_type = "drop" ->
                    create_drop(params.width, params.height)
               [] shape_type = "leaf" ->
                    create_leaf(params.width, params.height)
               [] shape_type = "rectangle" ->
                    create_rounded_rectangle(
                      params.width, params.height,
                      IF FloatTruthy(params.corner_radius)
                      THEN params.corner_radius ELSE 10)
               [] shape_type = "rounded_rectangle" ->
                    create_rounded_rectangle(
                      params.width, params.height,
                      IF FloatTruthy(params.corner_radius)
                      THEN params.corner_radius ELSE 16)
               [] shape_type = "gear" -> create_gear(params.width)
       IN  IF params.rotation # 0
           THEN Rotate(polygon, params.rotation)
           ELSE polygon

\* Mutant: the margin is added to the top edge instead of taken off it.
calculate_ribbon_hole_position_Above(polygon, margin) ==
  << (polygon.minx + polygon.maxx) \div 2, polygon.maxy + margin >>

\* calculate_ribbon_hole_position(polygon, margin).
calculate_ribbon_hole_position(polygon, margin) ==
  << (polygon.minx + polygon.maxx) \div 2, polygon.maxy - margin >>

\* ------------------------------------------------------------------- motifs

\* class MotifType(Enum).
MotifType ==
  { "mountains", "waves", "laurel", "rays", "chevrons", "trees",
    "running_track", "finish_line" }

\* MotifParams(width, height, detail_level, offset_x, offset_y).
MotifParams(width, height, offset_x, offset_y) ==
  [ width |-> width, height |-> height, detail_level |-> 3,
    offset_x |-> offset_x, offset_y |-> offset_y ]

\* Point coordinates are kept 600 times finer than the other lengths, so that
\* every fraction the recipes take of a width or a height is a whole number.
Fine(v) == 600 * v

\* 1000 * math.sin(2 * math.pi * i / 10), rounded.
Sin1000Tenth(i) ==
  CASE i % 10 \in { 0, 5 } -> 0
    [] i % 10 \in { 1, 4 } -> 588
    [] i % 10 \in { 2, 3 } -> 951
    [] i % 10 \in { 6, 9 } -> -588
    [] i % 10 \in { 7, 8 } -> -951

\* 1000 * math.sin(math.pi * j / 9), rounded, for j in 0 .. 9.
Sin1000Ninth(j) ==
  CASE j \in { 0, 9 } -> 0
    [] j \in { 1, 8 } -> 342
    [] j \in { 2, 7 } -> 643
    [] j \in { 3, 6 } -> 866
    [] j \in { 4, 5 } -> 985

\* 1000 * (math.cos(a), math.sin(a)) for a = 2 * math.pi * i / 12 - math.pi/2,
\* rounded.
CosSin1000Twelfth(i) ==
  CASE i % 12 = 0  -> << 0, -1000 >>
    [] i % 12 = 1  -> << 500, -866 >>
    [] i % 12 = 2  -> << 866, -500 >>
    [] i % 12 = 3  -> << 1000, 0 >>
    [] i % 12 = 4  -> << 866, 500 >>
    [] i % 12 = 5  -> << 500, 866 >>
    [] i % 12 = 6  -> << 0, 1000 >>
    [] i % 12 = 7  -> << -500, 866 >>
    [] i % 12 = 8  -> << -866, 500 >>
    [] i % 12 = 9  -> << -1000, 0 >>
    [] i % 12 = 10 -> << -866, -500 >>
    [] i % 12 = 11 -> << -500, -866 >>

\* create_mountains(width, height), n_peaks = 3, style "simple": one skyline
\* of 7 points.
create_mountains(width, height) ==
  LET peak_heights == << 480, 600, 360 >>
      base_x(i) == -300 * width + i * 200 * width
      point(n) ==
        IF n = 1 THEN << -300 * width, 0 >>
        ELSE LET i == (n - 2) \div 2
             IN  IF n % 2 = 0
                 THEN << base_x(i) + 100 * width, peak_heights[i + 1] * height >>
                 ELSE << base_x(i) + 200 * width, 0 >>
  IN  << [ n \in 1 .. 7 |-> point(n) ] >>

\* create_waves(width, height), n_waves = 3, n_rows = 2: per row the points
\* i = 0 .. 30, none of which lies beyond width/2.
create_waves(width, height) ==
  [ r \in 1 .. 2 |->
      [ n \in 1 .. 31 |->
          << -300 * width + (n - 1) * 20 * width,
             -(r - 1) * 360 * height
               + (3 * height * Sin1000Tenth(n - 1)) \div 10 >> ] ]

\* create_laurel(width, height), n_leaves = 6: for each side the stem of 20
\* points, then its 6 leaves of 10 points.
create_laurel(width, height) ==
  LET reach == 300 * width - 6000
      stem(side) ==
        [ n \in 1 .. 20 |->
            << side * ((reach * (190 - 3 * (n - 1))) \div 190),
               -300 * height + (600 * height * (n - 1)) \div 19 >> ]
      leaf(side, i) ==
        LET base_x == side * ((reach * (70 - 3 * (i + 1))) \div 70)
            base_y == -300 * height + (600 * height * (i + 1)) \div 7
        IN  [ n \in 1 .. 10 |->
                << base_x + side * ((9600 * (n - 1) * (13 - i)) \div 126),
                   base_y + (36 * Sin1000Ninth(n - 1) * (67 - 3 * i))
                              \div 700 >> ]
      line(k) ==
        LET side == IF k <= 7 THEN -1 ELSE 1
            rank == (k - 1) % 7
        IN  IF rank = 0 THEN stem(side) ELSE leaf(side, rank - 1)
  IN  [ k \in 1 .. 14 |-> line(k) ]

\* create_rays() with its defaults: center (0, 0), inner_radius 15 mm,
\* outer_radius 30 mm, n_rays 12.
create_rays ==
  [ k \in 1 .. 12 |->
      LET cs == CosSin1000Twelfth(k - 1)
      IN  << << 18 * cs[1], 18 * cs[2] >>, << 36 * cs[1], 36 * cs[2] >> >> ]

\* create_chevrons(width, height), n_chevrons = 3.
create_chevrons(width, height) ==
  [ k \in 1 .. 3 |->
      LET y_base == 300 * height - k * 150 * height
      IN  << << -300 * width, y_base + 45 * height >>,
             << 0, y_base >>,
             << 300 * width, y_base + 45 * height >> >> ]

\* create_trees(width, height), n_trees = 3: for each tree the silhouette,
\* which ends on the point it starts from, then the trunk.
create_trees(width, height) ==
  LET heights == << 420, 600, 480 >>
      center_x(i) == -300 * width + 100 * width * (2 * i + 1)
      tree(i) == << << center_x(i) - 60 * width, 0 >>,
                    << center_x(i), heights[i + 1] * height >>,
                    << center_x(i) + 60 * width, 0 >>,
                    << center_x(i) - 60 * width, 0 >> >>
      trunk(i) == << << center_x(i) - 18 * width, 0 >>,
                     << center_x(i) - 18 * width, -60 * height >>,
                     << center_x(i) + 18 * width, -60 * height >>,
                     << center_x(i) + 18 * width, 0 >> >>
  IN  [ k \in 1 .. 6 |->
          IF k % 2 = 1 THEN tree((k - 1) \div 2) ELSE trunk((k - 1) \div 2) ]

\* Mutant: each lane ends where it starts.
create_running_track_NoLength(width) ==
  [ k \in 1 .. 3 |->
      << << -300 * width, Fine(8) * (k - 2) >>,
         << -300 * width, Fine(8) * (k - 2) >> >> ]

\* create_running_track(width), n_lanes = 3, lane_spacing 4 mm.
create_running_track(width) ==
  [ k \in 1 .. 3 |->
      << << -300 * width, Fine(8) * (k - 2) >>,
         << 300 * width, Fine(8) * (k - 2) >> >> ]

\* create_finish_line(width, height), n_squares = 6: the squares with
\* (row + col) even, row by row, each drawn back to its first corner.
create_finish_line(width, height) ==
  LET n_rows == (6 * height) \div width
      square(row, col) ==
        LET x == -300 * width + col * 100 * width
            y == -300 * height + row * 100 * width
        IN  << << x, y >>, << x + 100 * width, y >>,
               << x + 100 * width, y + 100 * width >>,
               << x, y + 100 * width >>, << x, y >> >>
  IN  [ k \in 1 .. 3 * n_rows |->
          LET row == (k - 1) \div 3
          IN  square(row, 2 * ((k - 1) % 3) + (row % 2)) ]

\* Mutant: a key the table does not hold falls back to the rays.
MotifCreators_DefaultRays(motif_type, params) ==
  CASE motif_type = "mountains" ->
         create_mountains(params.width, params.height)
    [] motif_type = "waves" -> create_waves(params.width, params.height)
    [] motif_type = "laurel" -> create_laurel(params.width, params.height)
    [] motif_type = "rays" -> create_rays
    [] motif_type = "chevrons" -> create_chevrons(params.width, params.height)
    [] motif_type = "trees" -> create_trees(params.width, params.height)
    [] motif_type = "running_track" -> create_running_track(params.width)
    [] motif_type = "finish_line" ->
         create_finish_line(params.width, params.height)
    [] OTHER -> create_rays

\* motif_creators.get(motif_type, lambda: [])(): the polylines of the variant,
\* none for a key the table does not hold.
MotifCreators(motif_type, params) ==
  CASE motif_type = "mountains" ->
         create_mountains(params.width, params.height)
    [] motif_type = "waves" -> create_waves(params.width, params.height)
    [] motif_type = "laurel" -> create_laurel(params.width, params.height)
    [] motif_type = "rays" -> create_rays
    [] motif_type = "chevrons" -> create_chevrons(params.width, params.height)
    [] motif_type = "trees" -> create_trees(params.width, params.height)
    [] motif_type = "running_track" -> create_running_track(params.width)
    [] motif_type = "finish_line" ->
         create_finish_line(params.width, params.height)
    [] OTHER -> << >>

\* The number of polylines each create_* returns with the arguments get_motif
\* passes (the other parameters keep their defaults).
MotifLineCount(motif_type, params) ==
  CASE motif_type = "mountains"     -> 1
    [] motif_type = "waves"         -> 2
    [] motif_type = "laurel"        -> 2 * (1 + 6)
    [] motif_type = "rays"          -> 12
    [] motif_type = "chevrons"      -> 3
    [] motif_type = "trees"         -> 3 * 2
    [] motif_type = "running_track" -> 3
    [] motif_type = "finish_line"   -> ((6 * params.height) \div params.width) * 3
    [] OTHER                        -> 0

\* [(x + ox, y + oy) for x, y in line].
MovePoints(points, ox, oy) ==
  [ n \in 1 .. Len(points) |->
      << points[n][1] + Fine(ox), points[n][2] + Fine(oy) >> ]

\* One polyline of a motif: its points, with the recipe that drew it (variant,
\* size, rank in the generator's output) and the translation applied so far.
Polyline(motif_type, params, index, dx, dy) ==
  [ motif |-> motif_type, width |-> params.width, height |-> params.height,
    index |-> index, dx |-> dx, dy |-> dy,
    points |-> MovePoints(MotifCreators(motif_type, params)[index], dx, dy) ]

\* A polyline with every point moved by (ox, oy).
Translate(line, ox, oy) ==
  [ line EXCEPT !.dx = @ + ox, !.dy = @ + oy,
                !.points = MovePoints(@, ox, oy) ]

\* Mutant: the translation is applied only when both offsets are not 0.
get_motif_BothOffsets(motif_type, params) ==
  LET lines == [ k \in 1 .. Len(MotifCreators(motif_type, params)) |->
                   Polyline(motif_type, params, k, 0, 0) ]
  IN  IF params.offset_x # 0 /\ params.offset_y # 0
      THEN [ k \in 1 .. Len(lines) |->
               Translate(lines[k], params.offset_x, params.offset_y) ]
      ELSE lines

\* get_motif: motif_creators.get(motif_type, lambda: [])(), then the
\* translation by (offset_x, offset_y) when one of them is not 0.
get_motif(motif_type, params) ==
  LET lines == [ k \in 1 .. Len(MotifCreators(motif_type, params)) |->
                   Polyline(motif_type, params, k, 0, 0) ]
  IN  IF params.offset_x # 0 \/ params.offset_y # 0
      THEN [ k \in 1 .. Len(lines) |->
               Translate(lines[k], params.offset_x, params.offset_y) ]
      ELSE lines

\* ----------------------------------------------------------------- composer

\* class TextPosition(Enum).
TextPosition == { "top", "center", "bottom", "around_top", "around_bottom" }

\* TextElement(content, position, font_size, font_family, bold, offset_y,
\* curved, curve_radius).
TextElement(content, position, font_size, bold, offset_y, curved, curve_radius) ==
  [ content |-> content, position |-> position, font_size |-> font_size,
    font_family |-> "Arial", bold |-> bold, offset_y |-> offset_y,
    curved |-> curved, curve_radius |-> curve_radius ]

\* MotifElement(motif_type, params, position).
MotifElement(motif_type, params, position) ==
  [ motif_type |-> motif_type, params |-> params, position |-> position ]

\* MedalComposition(...), shape_polygon and validation_result left None.
MedalComposition(name, shape_type, shape_params, ribbon_hole, ribbon_hole_diameter, ribbon_hole_position, motifs, texts) ==
  [ name |-> name, shape_type |-> shape_type, shape_params |-> shape_params,
    ribbon_hole |-> ribbon_hole,
    ribbon_hole_diameter |-> ribbon_hole_diameter,
    ribbon_hole_position |-> ribbon_hole_position,
    motifs |-> motifs, texts |-> texts,
    shape_polygon |-> None, validation_result |-> None ]

RECURSIVE Flatten(_)
\* The concatenation of a list of lists: what successive list.extend calls
\* build.
Flatten(lists) ==
  IF lists = << >> THEN << >> ELSE Head(lists) \o Flatten(Tail(lists))

\* compose_medal, step 3: the hole position, explicit when the composition
\* gives a truthy one, else computed with margin 8.0 mm.
ResolveHolePosition(composition, outline) ==
  IF OptPairTruthy(composition.ribbon_hole_position)
  THEN composition.ribbon_hole_position
  ELSE calculate_ribbon_hole_position(outline, 16)

\* Mutant: an explicit position is kept as the center without a hole asked.
ResolveHoleCenter_ExplicitKept(composition, outline) ==
  IF composition.ribbon_hole
  THEN ResolveHolePosition(composition, outline)
  ELSE IF OptPairTruthy(composition.ribbon_hole_position)
       THEN composition.ribbon_hole_position
       ELSE None

\* compose_medal, step 3: ribbon_hole_center, None unless a hole is asked.
ResolveHoleCenter(composition, outline) ==
  IF composition.ribbon_hole
  THEN ResolveHolePosition(composition, outline)
  ELSE None

\* Mutant: the hole check is skipped once the outline check has failed.
HoleValidation_SkippedAfterFailure(composition, outline, constraints, lib) ==
  IF composition.ribbon_hole
       /\ validate_medal_shape(outline, constraints).is_valid
  THEN validate_ribbon_hole(outline,
                            ResolveHolePosition(composition, outline),
                            constraints, lib)
  ELSE ValidationResult(TRUE, << >>, << >>)

\* compose_medal, step 3: the hole check's result, run only when a hole is
\* asked.
HoleValidation(composition, outline, constraints, lib) ==
  IF composition.ribbon_hole
  THEN validate_ribbon_hole(outline,
                            ResolveHolePosition(composition, outline),
                            constraints, lib)
  ELSE ValidationResult(TRUE, << >>, << >>)

\* compose_medal, step 4, one iteration: the element's polylines moved by
\* its position.
PositionedLines(motif_elem) ==
  LET lines == get_motif(motif_elem.motif_type, motif_elem.params)
  IN  [ k \in 1 .. Len(lines) |->
          Translate(lines[k], motif_elem.position[1], motif_elem.position[2]) ]

\* Mutant: each element's lines replace the list instead of extending it.
ComposeMotifLines_LastOnly(motifs) ==
  IF motifs = << >>
  THEN << >>
  ELSE PositionedLines(motifs[Len(motifs)])

\* compose_medal, step 4: all_motif_lines after the loop.
ComposeMotifLines(motifs) ==
  Flatten([ i \in 1 .. Len(motifs) |-> PositionedLines(motifs[i]) ])

\* Mutant: the top anchor is inset by the bottom anchor's 10 mm.
PositionText_TopInsetTen(text_elem, outline) ==
  LET center_x    == (outline.minx + outline.maxx) \div 2
      center_y    == (outline.miny + outline.maxy) \div 2
      medal_width == outline.maxx - outline.minx
      around      == text_elem.position \in { "around_top", "around_bottom" }
  IN  [ content     |-> text_elem.content,
        font_size   |-> text_elem.font_size,
        font_family |-> text_elem.font_family,
        bold        |-> text_elem.bold,
        curved      |-> IF around THEN TRUE ELSE text_elem.curved,
        x           |-> center_x,
        y           |-> CASE text_elem.position = "top" ->
                               outline.maxy - 20 + text_elem.offset_y
                          [] text_elem.position = "center" ->
                               center_y + text_elem.offset_y
                          [] text_elem.position = "bottom" ->
                               outline.miny + 20 + text_elem.offset_y
                          [] around -> center_y,
        anchor      |-> "middle",
        curve_radius |-> IF around
                         THEN IF OptFloatTruthy(text_elem.curve_radius)
                              THEN text_elem.curve_radius
                              ELSE << medal_width \div 2 - 16 >>
                         ELSE None,
        start_angle |-> CASE text_elem.position = "around_top" -> << 180 >>
                          [] text_elem.position = "around_bottom" -> << 0 >>
                          [] OTHER -> None ]

\* compose_medal, step 5, one iteration: text_dict.
PositionText(text_elem, outline) ==
  LET center_x    == (outline.minx + outline.maxx) \div 2
      center_y    == (outline.miny + outline.maxy) \div 2
      medal_width == outline.maxx - outline.minx
      around      == text_elem.position \in { "around_top", "around_bottom" }
  IN  [ content     |-> text_elem.content,
        font_size   |-> text_elem.font_size,
        font_family |-> text_elem.font_family,
        bold        |-> text_elem.bold,
        curved      |-> IF around THEN TRUE ELSE text_elem.curved,
        x           |-> center_x,
        y           |-> CASE text_elem.position = "top" ->
                               outline.maxy - 30 + text_elem.offset_y
                          [] text_elem.position = "center" ->
                               center_y + text_elem.offset_y
                          [] text_elem.position = "bottom" ->
                               outline.miny + 20 + text_elem.offset_y
                          [] around -> center_y,
        anchor      |-> "middle",
        curve_radius |-> IF around
                         THEN IF OptFloatTruthy(text_elem.curve_radius)
                              THEN text_elem.curve_radius
                              ELSE << medal_width \div 2 - 16 >>
                         ELSE None,
        start_angle |-> CASE text_elem.position = "around_top" -> << 180 >>
                          [] text_elem.position = "around_bottom" -> << 0 >>
                          [] OTHER -> None ]

\* compose_medal, step 5: positioned_texts after the loop.
ComposeTexts(texts, outline) ==
  [ i \in 1 .. Len(texts) |-> PositionText(texts[i], outline) ]

\* Mutant: only the straight anchors are checked.
TextValidations_StraightOnly(texts, constraints) ==
  [ i \in 1 .. Len(texts) |->
      IF texts[i].position \in { "around_top", "around_bottom" }
      THEN ValidationResult(TRUE, << >>, << >>)
      ELSE validate_engraving_text(texts[i].font_size, constraints) ]

\* compose_medal, step 5: the text check of every element, in order.
TextValidations(texts, constraints) ==
  [ i \in 1 .. Len(texts) |->
      validate_engraving_text(texts[i].font_size, constraints) ]

\* Mutant: the hole check's errors are put before the outline check's.
ComposeErrors_HoleFirst(shape_validation, hole_validation, text_validations) ==
     hole_validation.errors
  \o shape_validation.errors
  \o Flatten([ i \in 1 .. Len(text_validations) |->
                 text_validations[i].errors ])

\* all_errors: list(shape_validation.errors), extended by the hole check's
\* errors and by each text check's.
ComposeErrors(shape_validation, hole_validation, text_validations) ==
     shape_validation.errors
  \o hole_validation.errors
  \o Flatten([ i \in 1 .. Len(text_validations) |->
                 text_validations[i].errors ])

\* all_warnings, built the same way.
ComposeWarnings(shape_validation, hole_validation, text_validations) ==
     shape_validation.warnings
  \o hole_validation.warnings
  \o Flatten([ i \in 1 .. Len(text_validations) |->
                 text_validations[i].warnings ])

\* compose_medal(composition, constraints): the ComposedMedal, or the
\* exception get_shape raised.
compose_medal(composition, constraints, lib) ==
  LET outline == get_shape(composition.shape_type, composition.shape_params)
  IN  IF Raised(outline)
      THEN outline
      ELSE LET shape_validation == validate_medal_shape(outline, constraints)
               hole_validation  ==
                 HoleValidation(composition, outline, constraints, lib)
               text_validations ==
                 TextValidations(composition.texts, constraints)
               all_errors   == ComposeErrors(shape_validation, hole_validation,
                                             text_validations)
               all_warnings == ComposeWarnings(shape_validation,
                                               hole_validation,
                                               text_validations)
               is_valid     == Len(all_errors) = 0
           IN  [ outline            |-> outline,
                 ribbon_hole_center |-> ResolveHoleCenter(composition, outline),
                 ribbon_hole_radius |->
                   composition.ribbon_hole_diameter \div 2,
                 motif_lines        |-> ComposeMotifLines(composition.motifs),
                 texts              |->
                   ComposeTexts(composition.texts, outline),
                 name               |-> composition.name,
                 bounds             |-> << outline.minx, outline.miny,
                                           outline.maxx, outline.maxy >>,
                 is_valid           |-> is_valid,
                 validation_result  |->
                   ValidationResult(is_valid, all_errors, all_warnings) ]

\* The library answers one compose_medal call may meet: those for its outline
\* and resolved hole center (none is asked for when get_shape raises or no
\* hole is requested).
ComposeLibAnswers(composition, constraints) ==
  LET outline == get_shape(composition.shape_type, composition.shape_params)
  IN  IF Raised(outline) \/ ~composition.ribbon_hole
      THEN {[ contains |-> FALSE, near |-> FALSE ]}
      ELSE LibAnswers(outline, ResolveHolePosition(composition, outline),
                      constraints)

\* ------------------------------------------------------------------ renderer

\* text_data.get("curve_radius", 30), in half-millimetres.
DefaultCurveRadius == 60

\* text_data.get("start_angle", 180).
DefaultStartAngle == 180

\* A text element drawn at (x, -y): the y axis of the file points down.
straight_text(text_data) ==
  [ content     |-> text_data.content,
    insert      |-> << text_data.x, -text_data.y >>,
    text_anchor |-> text_data.anchor,
    font_size   |-> text_data.font_size,
    font_family |-> text_data.font_family,
    bold        |-> text_data.bold,
    path        |-> None ]

\* _add_curved_text: the text on a half circle round (x, -y), run from left
\* to right for start_angle 180 and from right to left otherwise; a
\* placement without curve_radius or start_angle gets the defaults.
add_curved_text(text_data) ==
  LET cx          == text_data.x
      cy          == -text_data.y
      radius      == IF text_data.curve_radius = None
                     THEN DefaultCurveRadius
                     ELSE text_data.curve_radius[1]
      start_angle == IF text_data.start_angle = None
                     THEN DefaultStartAngle
                     ELSE text_data.start_angle[1]
  IN  [ content     |-> text_data.content,
        insert      |-> None,
        text_anchor |-> "middle",
        font_size   |-> text_data.font_size,
        font_family |-> text_data.font_family,
        bold        |-> text_data.bold,
        path        |-> IF start_angle = 180
                        THEN << << cx - radius, cy >>, radius,
                                << cx + radius, cy >> >>
                        ELSE << << cx + radius, cy >>, radius,
                                << cx - radius, cy >> >> ]

\* The circle of the ribbon hole, drawn when the design has a hole center.
HoleCircles(medal) ==
  IF medal.ribbon_hole_center # None
  THEN << [ center |-> medal.ribbon_hole_center,
            r      |-> medal.ribbon_hole_radius ] >>
  ELSE << >>

\* The motif lines drawn: those of at least 2 points.
DrawnLines(medal) ==
  LET drawn(line) == Len(line.points) >= 2
  IN  SelectSeq(medal.motif_lines, drawn)

\* create_svg_medal: the preview drawing; every text of the design, on its
\* arc when flagged curved.
create_svg_medal(medal) ==
  [ polygon   |-> medal.outline,
    circles   |-> HoleCircles(medal),
    polylines |-> DrawnLines(medal),
    texts     |-> [ i \in 1 .. Len(medal.texts) |->
                      IF medal.texts[i].curved
                      THEN add_curved_text(medal.texts[i])
                      ELSE straight_text(medal.texts[i]) ] ]

\* render_production_svg: the drawing saved for the machine; of the texts,
\* those not flagged curved.
render_production_svg(medal) ==
  LET straight(text_data) == ~text_data.curved
      kept == SelectSeq(medal.texts, straight)
  IN  [ polygon   |-> medal.outline,
        circles   |-> HoleCircles(medal),
        polylines |-> DrawnLines(medal),
        texts     |-> [ i \in 1 .. Len(kept) |-> straight_text(kept[i]) ] ]

\* create_trail_medal(event_name, year, distance, diameter) with the default
\* texts.
create_trail_medal(diameter) ==
  MedalComposition(
    "Trail des Montagnes 2026", "circle",
    ShapeParams(diameter, None, 0, 0), TRUE, 8, None,
    << MotifElement("mountains",
                    MotifParams((diameter * 7) \div 10, (diameter * 3) \div 10,
                                0, 0),
                    << 0, -10 >>),
       MotifElement("trees",
                    MotifParams((diameter * 5) \div 10, (diameter * 2) \div 10,
                                0, 0),
                    << 0, -((diameter * 25) \div 100) >>) >>,
    << TextElement("TRAIL DES MONTAGNES", "around_top", 10, TRUE, 0, FALSE,
                   None),
       TextElement("42K", "center", 28, TRUE, 10, FALSE, None),
       TextElement("2026", "around_bottom", 10, FALSE, 0, FALSE, None) >>)

\* ------------------------------------------------------------- ai_suggester

\* Python truthiness of Optional[str]: None and "" are falsy.
OptStrTruthy(o) == Len(o) > 0 /\ o[1] # ""

\* dict.get(key, default): the value of a key the object holds, else default.
Get(o, default) == IF o = None THEN default ELSE o[1]

ValueError == [ raised |-> "ValueError" ]

\* Enum(value): the member whose value it is, or ValueError.
EnumByValue(members, value) ==
  IF value \in members THEN [ member |-> value ] ELSE ValueError

\* str.upper() of the event names used.
Upper(text) ==
  CASE text = "Trail des Volcans" -> "TRAIL DES VOLCANS"
    [] OTHER -> text

\* The reply's text is a list of pieces: prose, a ```json fence, a ``` fence,
\* or a JSON value.
Piece(tok, value) == [ tok |-> tok, value |-> value ]

NoValue == [ kind |-> "none", suggestions |-> None ]

Prose == Piece("prose", NoValue)

FenceJson == Piece("fence_json", NoValue)

Fence == Piece("fence", NoValue)

\* The index of the first piece of one of the kinds, 0 when there is none.
FirstPiece(text, toks) ==
  IF \E i \in DOMAIN text : text[i].tok \in toks
  THEN CHOOSE i \in DOMAIN text :
         /\ text[i].tok \in toks
         /\ \A j \in 1 .. i - 1 : text[j].tok \notin toks
  ELSE 0

\* text.split(fence)[1].split("```")[0]: what follows the first fence of the
\* kinds `toks`, up to the next fence of any kind.
Fenced(text, toks) ==
  LET rest  == SubSeq(text, FirstPiece(text, toks) + 1, Len(text))
      close == FirstPiece(rest, { "fence", "fence_json" })
  IN  IF close = 0 THEN rest ELSE SubSeq(rest, 1, close - 1)

\* The cleaning of response_text: the inside of the first ```json block, else
\* of the first ``` block ("```" is found in "```json" too), else the text.
CleanResponse(text) ==
  IF FirstPiece(text, { "fence_json" }) # 0
  THEN Fenced(text, { "fence_json" })
  ELSE IF FirstPiece(text, { "fence", "fence_json" }) # 0
       THEN Fenced(text, { "fence", "fence_json" })
       ELSE text

\* json.loads: the value of a text that is one JSON value, else
\* JSONDecodeError.
json_loads(text) ==
  IF Len(text) = 1 /\ text[1].tok = "json"
  THEN text[1].value
  ELSE [ raised |-> "JSONDecodeError" ]

\* MedalSuggestion(...) from one entry of "suggestions", a missing key
\* taking its default; lengths in half-millimetres.
MedalSuggestion(s, event_name, year) ==
  [ name            |-> Get(s.name, ""),
    shape           |-> Get(s.shape, "circle"),
    primary_motif   |-> Get(s.primary_motif, "mountains"),
    secondary_motif |-> s.secondary_motif,
    color_wood      |-> "hetre",
    text_main       |-> Get(s.text_main, Upper(event_name)),
    text_secondary  |-> "",
    text_year       |-> year,
    diameter        |-> Get(s.diameter, 140) ]

\* The body of the try block: the AIResponse, or the exception raised on
\* the way (by the client, by content[0], by json.loads, by .get on a value
\* that is no object).
BuildResponse(api, event_name, year) ==
  IF Raised(api)
  THEN api
  ELSE IF api.content = << >>
  THEN [ raised |-> "IndexError" ]
  ELSE LET data == json_loads(CleanResponse(api.content[1]))
       IN  IF Raised(data)
           THEN data
           ELSE IF data.kind # "object"
           THEN [ raised |-> "AttributeError" ]
           ELSE LET entries == Get(data.suggestions, << >>)
                IN  IF \E i \in DOMAIN entries : entries[i].kind # "object"
                    THEN [ raised |-> "AttributeError" ]
                    ELSE [ suggestions |->
                             [ i \in DOMAIN entries |->
                                 MedalSuggestion(entries[i], event_name,
                                                 year) ] ]

\* get_ai_suggestions: None without the package, without a key, or when the
\* try block raises (each except clause returns None, the last one catching
\* Exception); else the AIResponse built from the reply.
get_ai_suggestions(has_anthropic, api_key, env_key, api, event_name, year) ==
  LET key == IF OptStrTruthy(api_key) THEN api_key ELSE env_key
  IN  IF ~has_anthropic
      THEN None
      ELSE IF ~OptStrTruthy(key)
      THEN None
      ELSE LET outcome == BuildResponse(api, event_name, year)
           IN  IF Raised(outcome) THEN None ELSE << outcome >>

\* suggestion_to_composition_params, the shape: MedalShape(suggestion.shape),
\* the circle on ValueError.
ShapeOfSuggestion(suggestion) ==
  LET shape == EnumByValue(MedalShape, suggestion.shape)
  IN  IF Raised(shape) THEN "circle" ELSE shape.member

\* Mutant: a name that is no MotifType value is passed on as it is.
PrimaryMotifOfSuggestion_PassedOn(suggestion) == suggestion.primary_motif

\* The primary motif: MotifType(suggestion.primary_motif), mountains on
\* ValueError.
PrimaryMotifOfSuggestion(suggestion) ==
  LET motif == EnumByValue(MotifType, suggestion.primary_motif)
  IN  IF Raised(motif) THEN "mountains" ELSE motif.member

\* The secondary motif: None unless the name is truthy and a MotifType value.
SecondaryMotifOfSuggestion(suggestion) ==
  IF OptStrTruthy(suggestion.secondary_motif)
  THEN LET motif == EnumByValue(MotifType, suggestion.secondary_motif[1])
       IN  IF Raised(motif) THEN None ELSE << motif.member >>
  ELSE None

\* suggestion_to_composition_params: the keyword arguments of
\* create_custom_medal.
suggestion_to_composition_params(suggestion) ==
  [ shape           |-> ShapeOfSuggestion(suggestion),
    primary_motif   |-> PrimaryMotifOfSuggestion(suggestion),
    secondary_motif |-> SecondaryMotifOfSuggestion(suggestion),
    wood_type       |-> suggestion.color_wood,
    text_main       |-> suggestion.text_main,
    text_secondary  |-> suggestion.text_secondary,
    text_year       |-> suggestion.text_year,
    diameter        |-> suggestion.diameter,
    concept_name    |-> suggestion.name ]

\* create_custom_medal(**params): the composition of a suggestion; the
\* products of the diameter are rounded down to the half millimetre.
create_custom_medal(params) ==
  LET diameter == params.diameter
      motifs ==
        << MotifElement(params.primary_motif,
                        MotifParams(Scaled(diameter, 6000),
                                    Scaled(diameter, 2500), 0, 0),
                        << 0, -10 >>) >>
        \o IF params.secondary_motif # None
           THEN << MotifElement(params.secondary_motif[1],
                                MotifParams(Scaled(diameter, 4000),
                                            Scaled(diameter, 1500), 0, 0),
                                << 0, -Scaled(diameter, 2200) >>) >>
           ELSE << >>
      texts ==
        IF params.shape = "circle"
        THEN << TextElement(params.text_main, "around_top", 10, TRUE, 0,
                            FALSE, None),
                TextElement(params.text_secondary, "center", 16, TRUE, 16,
                            FALSE, None),
                TextElement(params.text_year, "around_bottom", 10, FALSE, 0,
                            FALSE, None) >>
        ELSE << TextElement(params.text_main, "top", 10, TRUE, -10, FALSE,
                            None),
                TextElement(params.text_secondary, "center", 14, TRUE, 0,
                            FALSE, None),
                TextElement(params.text_year, "bottom", 10, FALSE, 10, FALSE,
                            None) >>
  IN  MedalComposition(
        params.concept_name, params.shape,
        IF params.shape \in { "shield", "drop", "leaf" }
        THEN ShapeParams(Scaled(diameter, 8500), << diameter >>, 0, 0)
        ELSE ShapeParams(diameter, None, 0, 0),
        TRUE, 8, None, motifs, texts)

\* ---------------------------------------------------------------------- main

\* str.strip().lower() of the answers typed at the prompt.
StripLower(raw) ==
  CASE raw = " ALL " -> "all"
    [] raw = "Q" -> "q"
    [] raw = " 2" -> "2"
    [] raw = "  " -> ""
    [] OTHER -> raw

\* choice = input(...).strip().lower() or "all".
Choice(raw) == IF StripLower(raw) = "" THEN "all" ELSE StripLower(raw)

\* int(choice) for the choices '1', '2' and '3'.
IntOfChoice(choice) ==
  CASE choice = "1" -> 1 [] choice = "2" -> 2 [] choice = "3" -> 3

\* Mutant: the choice is taken for the index itself.
SelectedIndices_OneBased(choice) ==
  CASE choice = "all" -> << << 0, 1, 2 >> >>
    [] choice \in { "1", "2", "3" } -> << << IntOfChoice(choice) >> >>
    [] OTHER -> None

\* ai_mode, the indices to generate: [0, 1, 2] for 'all', [int(choice) - 1]
\* for '1', '2', '3', none (an invalid choice) otherwise.
SelectedIndices(choice) ==
  CASE choice = "all" -> << << 0, 1, 2 >> >>
    [] choice \in { "1", "2", "3" } -> << << IntOfChoice(choice) - 1 >> >>
    [] OTHER -> None

\* safe_name: the name's letters, digits, '-', '_' and spaces, the spaces
\* turned to '_', in lower case.
SafeName(name) ==
  CASE name = "Sommet" -> "sommet"
    [] name = "Volcan" -> "volcan"
    [] OTHER -> name

\* ai_mode, one turn of the loop once the medal is composed: what the turn
\* does in order (compose, preview SVG, production SVG, PNG when cairosvg
\* can be imported) and the results entry it appends.
RenderSuggestion(idx, suggestion, medal, has_cairosvg) ==
  [ log    |-> [ j \in 1 .. 4 |->
                   [ op      |-> << "compose_medal", "render_medal_svg",
                                    "render_production_svg",
                                    "render_medal_png" >>[j],
                     index   |-> idx,
                     base    |-> SafeName(suggestion.name),
                     written |-> << FALSE, TRUE, TRUE, has_cairosvg >>[j],
                     texts   |-> CASE j = 1 -> Len(medal.texts)
                                   [] j = 3 ->
                                        Len(render_production_svg(medal).texts)
                                   [] OTHER ->
                                        Len(create_svg_medal(medal).texts) ] ],
    result |-> [ name       |-> suggestion.name,
                 is_valid   |-> medal.is_valid,
                 dimensions |-> << medal.bounds[3] - medal.bounds[1],
                                   medal.bounds[4] - medal.bounds[2] >>,
                 files      |-> << "preview_svg", "production_svg" >>
                                  \o IF has_cairosvg
                                     THEN << "preview_png" >>
                                     ELSE << >> ] ]

\* ai_mode, one turn of the loop for an index the reply holds: the
\* suggestion's composition is composed with the default profile, then
\* rendered.
GenerateSuggestion(idx, suggestion, has_cairosvg) ==
  RenderSuggestion(
    idx, suggestion,
    compose_medal(
      create_custom_medal(suggestion_to_composition_params(suggestion)),
      DEFAULT_CONSTRAINTS, [ contains |-> FALSE, near |-> FALSE ]),
    has_cairosvg)

\* all_results and what was done, turn after turn.
CollectTurns(turns) ==
  [ log    |-> Flatten([ k \in 1 .. Len(turns) |-> turns[k].log ]),
    result |-> << [ k \in 1 .. Len(turns) |-> turns[k].result ] >> ]

\* ai_mode, the loop over the indices: an index the reply does not hold is
\* skipped.
GenerateAll(indices, suggestions, has_cairosvg) ==
  LET held(idx) == idx < Len(suggestions)
  IN  CollectTurns([ k \in 1 .. Len(SelectSeq(indices, held)) |->
                       GenerateSuggestion(
                         SelectSeq(indices, held)[k],
                         suggestions[SelectSeq(indices, held)[k] + 1],
                         has_cairosvg) ])

\* What ai_mode does when it returns None: nothing composed, nothing
\* written.
NothingDone == [ log |-> << >>, result |-> None ]

\* ai_mode: None without the package, without a response, on 'q' and on an
\* invalid choice; else all_results.
ai_mode(has_anthropic, env_key, api, raw, has_cairosvg) ==
  IF ~has_anthropic
  THEN NothingDone
  ELSE LET response == get_ai_suggestions(has_anthropic, None, env_key, api,
                                          "Trail des Volcans", "2026")
           choice   == Choice(raw)
           indices  == SelectedIndices(choice)
       IN  IF response = None
           THEN NothingDone
           ELSE IF choice = "q"
           THEN NothingDone
           ELSE IF indices = None
           THEN NothingDone
           ELSE GenerateAll(indices[1], response[1].suggestions, has_cairosvg)

\* ------------------------------------------------- objects across the calls

\* The geometry library computes each answer from its arguments alone: on an
\* invalid ring, where the model does not know the answer, it gives the one
\* its habit names whenever the bounding boxes leave that answer open.
GeosAnswer(p, hole_center, constraints, habit) ==
  LET answers == LibAnswers(p, hole_center, constraints)
      open(f)  == \E a \in answers : a[f] = habit[f]
  IN  [ contains |-> IF open("contains") THEN habit.contains
                     ELSE ~habit.contains,
        near     |-> IF open("near") THEN habit.near ELSE ~habit.near ]

\* The library's answers to the hole check of one compose_medal call.
ComposeGeosAnswer(composition, constraints, habit) ==
  LET outline == get_shape(composition.shape_type, composition.shape_params)
  IN  IF Raised(outline) \/ ~composition.ribbon_hole
      THEN [ contains |-> FALSE, near |-> FALSE ]
      ELSE GeosAnswer(outline, ResolveHolePosition(composition, outline),
                      constraints, habit)

\* Mutant: compose_medal stores the composition's hole diameter in the
\* profile it was given.
ConstraintsAfterCompose_HoleStored(composition, constraints) ==
  [ constraints EXCEPT !.ribbon_hole_diameter =
                         composition.ribbon_hole_diameter ]

\* The constraints object once compose_medal has returned: the function and
\* the validators it calls read its fields and assign none.
ConstraintsAfterCompose(composition, constraints) == constraints

\* Mutant: compose_medal fills in the composition's shape_polygon and
\* validation_result fields.
CompositionAfterCompose_Filled(composition, composed) ==
  IF Raised(composed)
  THEN composition
  ELSE [ composition EXCEPT
           !.shape_polygon = << composed.outline >>,
           !.validation_result = << composed.validation_result >> ]

\* The composition object once compose_medal has returned (or raised): the
\* function assigns none of its fields, shape_polygon and validation_result
\* included, nor any field of its shape parameters, motifs and texts.
CompositionAfterCompose(composition, composed) == composition

\* The individual check results as they stand when compose_medal returns:
\* all_errors and all_warnings are copies (list(...)) of the outline check's
\* lists, and extend() reads the other checks' lists.
ChecksAfterCompose(shape_validation, hole_validation, text_validations) ==
  [ shape |-> shape_validation, hole |-> hole_validation,
    texts |-> text_validations ]

\* The outline and the constraints once a validator has returned: buffer(),
\* bounds, area, contains() and distance() build new values.
PolygonAfterValidate(polygon) == polygon

ConstraintsAfterValidate(constraints) == constraints

\* ------------------------------------------------------------------- inputs

\* The longest motif list and text list of a composition.
MaxMotifs == 2

MaxTexts == 2

\* The tallest text height passed to validate_engraving_text directly.
MaxTextHeight == 12

\* The largest |y| of a hole center passed to validate_ribbon_hole directly.
MaxHoleY == 90

SeqUpTo(S, n) == UNION { [ 1 .. k -> S ] : k \in 0 .. n }

\* Constraint profiles: the default one and two caller-supplied overrides (a
\* small work area; a narrow medal range with odd limits and another hole).
SmallWorkArea ==
  [ DEFAULT_CONSTRAINTS EXCEPT !.max_width = 200, !.max_height = 120 ]

NarrowRange ==
  [ DEFAULT_CONSTRAINTS EXCEPT !.min_medal_diameter = 100,
                               !.max_medal_diameter = 150,
                               !.min_bridge_width = 9,
                               !.ribbon_hole_diameter = 12,
                               !.ribbon_hole_min_margin = 4,
                               !.min_text_height = 5 ]

Profiles == { DEFAULT_CONSTRAINTS, SmallWorkArea, NarrowRange }

\* Shape selections: circles from 2 mm to 601 mm, (rounded) rectangles,
\* gears narrower than their tooth depth, and a variant MedalShape lacks.
ShapeChoices ==
       { << "circle", ShapeParams(w, None, 0, 0) >> :
           w \in { 4, 8, 60, 140, 160, 250, 1202 } }
  \cup { << t, ShapeParams(w, h, rot, cr) >> :
           t \in { "rectangle", "rounded_rectangle" },
           w \in { 60, 160, 250 }, h \in { None, << 100 >>, << 300 >> },
           rot \in { 0, 90 }, cr \in { 0, 6, 20 } }
  \cup { << "gear", ShapeParams(w, None, rot, 0) >> :
           w \in { 2, 4, 10 }, rot \in { 0, 90 } }
  \cup { << "triangle", ShapeParams(140, None, 0, 0) >> }

HolePositions == { None, << 0, 0 >>, << 0, 60 >>, << 0, 70 >>, << 30, -20 >> }

TextSamples ==
  { TextElement("A", "top", 4, TRUE, -10, FALSE, None),
    TextElement("B", "center", 8, TRUE, 10, FALSE, None),
    TextElement("C", "bottom", 10, FALSE, 10, FALSE, None),
    TextElement("D", "around_top", 5, FALSE, 0, FALSE, None),
    TextElement("E", "around_bottom", 8, FALSE, 0, TRUE, << 0 >>),
    TextElement("F", "around_top", 9, FALSE, 6, FALSE, << 40 >>),
    TextElement("G", "center", 6, FALSE, 0, TRUE, None) }

TextElements ==
  { TextElement("T", pos, size, FALSE, off, curved, radius) :
      pos \in TextPosition, size \in { 4, 6, 8, 9, 10 }, off \in { 0, -10 },
      curved \in BOOLEAN, radius \in { None, << 0 >>, << 40 >> } }

MotifSamples ==
       { MotifElement(t, MotifParams(60, 20, 0, 0), << 0, -10 >>) :
           t \in MotifType }
  \cup { MotifElement("waves", MotifParams(72, 30, 0, -6), << 2, -4 >>),
         MotifElement("rays", MotifParams(60, 20, 0, 0), << 0, 0 >>),
         MotifElement("finish_line", MotifParams(36, 30, 0, 0), << 6, 8 >>),
         MotifElement("spiral", MotifParams(60, 20, 0, 0), << 0, -10 >>) }

\* Compositions whose geometry varies.
GeometryCompositions ==
  { MedalComposition("Medal", sc[1], sc[2], hole, d, pos, mt[1], mt[2]) :
      sc \in ShapeChoices, hole \in BOOLEAN, d \in { 8, 12, 16 },
      pos \in HolePositions,
      mt \in { << << >>, << >> >>,
               << << MotifElement("chevrons", MotifParams(60, 20, 0, 0),
                                  << 0, 10 >>) >>,
                  << TextElement("A", "top", 4, TRUE, -10, FALSE, None) >> >>
             } }

BaseShapes ==
  { << "circle", ShapeParams(140, None, 0, 0) >>,
    << "circle", ShapeParams(60, None, 0, 0) >>,
    << "circle", ShapeParams(8, None, 0, 0) >>,
    << "gear", ShapeParams(4, None, 0, 0) >>,
    << "rectangle", ShapeParams(160, << 100 >>, 0, 0) >> }

\* Compositions whose motif list varies.
MotifCompositions ==
  { MedalComposition("Medal", "circle", ShapeParams(140, None, 0, 0), TRUE, 8,
                     None, motifs, << >>) :
      motifs \in SeqUpTo(MotifSamples, MaxMotifs) }

\* Compositions whose text list varies.
TextCompositions ==
       { MedalComposition("Medal", sc[1], sc[2], TRUE, 8, None, << >>, texts) :
           sc \in BaseShapes, texts \in SeqUpTo(TextSamples, MaxTexts) }
  \cup { MedalComposition("Medal", sc[1], sc[2], TRUE, 8, None, << >>,
                          << t >>) :
           sc \in BaseShapes, t \in TextElements }

\* The trail preset from 40 mm to 120 mm, every 5 mm.
TrailCompositions == { create_trail_medal(10 * k) : k \in 8 .. 24 }

Compositions ==
  GeometryCompositions \cup MotifCompositions \cup TextCompositions
    \cup TrailCompositions

\* Outlines handed to the validators directly: discs, boxes, and an invalid
\* ring.
Polygons ==
       { PointBuffer(0, 0, r) : r \in { 2, 4, 30, 40, 80, 120, 130, 600, 601 } }
  \cup { Polygon(TRUE, -a, -b, a, b, c) :
           a \in { 40, 80, 125 }, b \in { 3, 50, 70, 150 }, c \in { 0, 3 } }
  \cup { Polygon(TRUE, -40, 0, 40, 5, 0), Polygon(FALSE, -8, -8, 8, 8, 0) }

HoleCenters ==
  { << x, y >> : x \in { -56, 0, 20, 56, 64 }, y \in -MaxHoleY .. MaxHoleY }

\* MotifParams handed to get_motif directly.
MotifParamsChoices ==
  { MotifParams(w, h, off[1], off[2]) :
      w \in { 36, 60 }, h \in { 4, 20, 30 },
      off \in { << 0, 0 >>, << 4, -6 >> } }

\* ShapeParams handed to get_shape directly: widths of 30 mm, 70 mm and
\* 100 mm, the height left out or given, with and without a quarter turn.
ShapeParamsChoices ==
  { ShapeParams(w, h, rot, cr) :
      w \in { 60, 140, 200 }, h \in { None, << 100 >>, << 180 >> },
      rot \in { 0, 90 }, cr \in { 0, 6, 20, 80 } }

\* The get_shape calls, each with the corner_radius its ShapeParams was built
\* with: the field is 0.0 when the argument is left out.
GetShapeRequests ==
  UNION { { [ fn |-> "get_shape", shape_type |-> t, params |-> p,
              corner_radius_arg |-> arg ] :
              arg \in IF p.corner_radius = 0
                      THEN { None, << 0 >> }
                      ELSE { << p.corner_radius >> } } :
          t \in MedalShape \cup { "triangle" }, p \in ShapeParamsChoices }

\* The designs handed to the renderer: the text and trail compositions,
\* composed under the default profile.
RenderedMedals ==
  UNION { { compose_medal(c, DEFAULT_CONSTRAINTS, lib) :
              lib \in ComposeLibAnswers(c, DEFAULT_CONSTRAINTS) } :
          c \in TextCompositions \cup TrailCompositions }

\* The most entries of "suggestions" in a reply.
MaxSuggestions == 4

\* One entry of "suggestions": a JSON object with some of the keys.
JsonSuggestion(name, shape, primary_motif, secondary_motif, diameter, text_main) ==
  [ kind |-> "object", name |-> name, shape |-> shape,
    primary_motif |-> primary_motif, secondary_motif |-> secondary_motif,
    diameter |-> diameter, text_main |-> text_main ]

\* Entries: a full one, the empty object, one with names the enums lack, one
\* with an empty secondary motif, and a string where an object is expected.
JsonEntries ==
  { JsonSuggestion(<< "Sommet" >>, << "rounded_rectangle" >>, << "waves" >>,
                   << "laurel" >>, << 200 >>, << "SOMMET" >>),
    JsonSuggestion(None, None, None, None, None, None),
    JsonSuggestion(<< "Volcan" >>, << "triangle" >>, << "spiral" >>,
                   << "flames" >>, << 100 >>, None),
    JsonSuggestion(<< "Foret" >>, << "shield" >>, << "trees" >>, << "" >>,
                   << 100 >>, None),
    [ JsonSuggestion(None, None, None, None, None, None)
        EXCEPT !.kind = "string" ] }

\* The JSON values of a reply: an array, an object without "suggestions",
\* and objects with up to MaxSuggestions entries.
JsonValues ==
       { [ kind |-> "array", suggestions |-> None ],
         [ kind |-> "object", suggestions |-> None ] }
  \cup { [ kind |-> "object", suggestions |-> << entries >> ] :
           entries \in SeqUpTo(JsonEntries, MaxSuggestions) }

\* The texts a reply may wrap a JSON value in.
ReplyTexts(value) ==
  LET json == Piece("json", value)
  IN  { << json >>, << FenceJson, json, Fence >>,
        << Prose, FenceJson, json, Fence, Prose >>, << Fence, json, Fence >>,
        << FenceJson, json >>, << Prose, json >>, << Prose >>, << >> }

\* What client.messages.create does: raise, or return a message.
ApiOutcomes ==
       { [ raised |-> e ] :
           e \in { "APIConnectionError", "RateLimitError", "APIStatusError",
                   "RuntimeError" } }
  \cup { [ content |-> << >> ] }
  \cup UNION { { [ content |-> << text >> ] : text \in ReplyTexts(value) } :
               value \in JsonValues }

\* The calls of get_ai_suggestions: every reply with the package and a key,
\* and every package and key setting with one reply.
AiRequests ==
       [ fn : { "get_ai_suggestions" }, has_anthropic : { TRUE },
         api_key : { None }, env_key : { << "sk-env" >> }, api : ApiOutcomes,
         event_name : { "Trail des Volcans" }, year : { "2026" } ]
  \cup [ fn : { "get_ai_suggestions" }, has_anthropic : BOOLEAN,
         api_key : { None, << "" >>, << "sk-arg" >> },
         env_key : { None, << "" >>, << "sk-env" >> },
         api : { [ content |-> << << Piece("json",
                     [ kind |-> "object", suggestions |-> << << >> >> ]) >> >> ]
               },
         event_name : { "Trail des Volcans" }, year : { "2026" } ]

\* The suggestions handed to suggestion_to_composition_params.
Suggestions ==
  [ name : { "Sommet" },
    shape : MedalShape \cup { "triangle", "Circle", "" },
    primary_motif : MotifType \cup { "spiral" },
    secondary_motif : { None, << "" >>, << "laurel" >>, << "flames" >> },
    color_wood : { "hetre" }, text_main : { "SOMMET" },
    text_secondary : { "" }, text_year : { "2026" },
    diameter : { 100, 200 } ]

\* The replies met by ai_mode: a client error, prose, and objects with up to
\* MaxSuggestions entries among the full one, the empty one and the one
\* with unknown names.
AiModeApis ==
       { [ raised |-> "APIConnectionError" ], [ content |-> << << Prose >> >> ] }
  \cup { [ content |-> << << Piece("json",
             [ kind |-> "object", suggestions |-> << entries >> ]) >> >> ] :
           entries \in SeqUpTo({ e \in JsonEntries :
                                   /\ e.kind = "object"
                                   /\ e.shape # << "shield" >> },
                               MaxSuggestions) }

\* What is typed at the prompt of ai_mode.
RawChoices == { "", "  ", "all", " ALL ", "1", "2", " 2", "3", "q", "Q", "0",
                "4", "x" }

\* The calls of ai_mode: every reply and choice with the package and a key,
\* and every package and key setting with a reply of 3 suggestions.
AiModeRequests ==
       [ fn : { "ai_mode" }, has_anthropic : { TRUE },
         env_key : { << "sk-env" >> }, api : AiModeApis, raw : RawChoices,
         has_cairosvg : BOOLEAN ]
  \cup [ fn : { "ai_mode" }, has_anthropic : BOOLEAN,
         env_key : { None, << "sk-env" >> },
         api : { [ content |-> << << Piece("json",
                     [ kind |-> "object",
                       suggestions |->
                         << [ k \in 1 .. 3 |->
                                JsonSuggestion(None, None, None, None, None,
                                               None) ] >> ]) >> >> ] },
         raw : { "all", "1" }, has_cairosvg : { TRUE } ]

Requests ==
       [ fn : { "compose_medal" }, composition : Compositions,
         constraints : Profiles ]
  \cup [ fn : { "validate_medal_shape" }, polygon : Polygons,
         constraints : Profiles ]
  \cup [ fn : { "validate_ribbon_hole" },
         polygon : { PointBuffer(0, 0, 80), PointBuffer(0, 0, 70),
                     Polygon(TRUE, -80, -50, 80, 50, 10),
                     Polygon(FALSE, -8, -8, 8, 8, 0) },
         hole_center : HoleCenters, constraints : Profiles ]
  \cup [ fn : { "validate_engraving_text" },
         text_height : 0 .. MaxTextHeight, constraints : Profiles ]
  \cup [ fn : { "get_motif" }, motif_type : MotifType \cup { "spiral" },
         params : MotifParamsChoices ]
  \cup GetShapeRequests
  \cup [ fn : { "create_gear" }, outer_diameter : { 60, 140, 200 },
         n_teeth : { 3, 8, 12 } ]
  \cup [ fn : { "create_svg_medal", "render_production_svg" },
         medal : RenderedMedals ]
  \cup AiRequests
  \cup AiModeRequests
  \cup [ fn : { "suggestion_to_composition_params" },
         suggestion : Suggestions ]

\* The most calls made in a row on the same objects.
MaxCalls == 3

\* The compositions a caller keeps and composes again: the 70 mm trail medal,
\* a gear narrower than its tooth depth with its hole at the origin, and a
\* 30 mm disc with an 8 mm hole.
SessionCompositions ==
  << create_trail_medal(140),
     MedalComposition("Gear", "gear", ShapeParams(4, None, 0, 0), TRUE, 12,
                      << 0, 0 >>, << >>,
                      << TextElement("E", "around_bottom", 8, FALSE, 0, TRUE,
                                     << 0 >>) >>),
     MedalComposition("Disc", "circle", ShapeParams(60, None, 0, 0), TRUE, 16,
                      None,
                      << MotifElement("chevrons", MotifParams(60, 20, 0, 0),
                                      << 0, 10 >>) >>,
                      << TextElement("A", "top", 4, TRUE, -10, FALSE,
                                     None) >>) >>

\* The outlines a caller keeps: the 80 mm disc and an invalid ring.
SessionPolygons == { PointBuffer(0, 0, 80), Polygon(FALSE, -8, -8, 8, 8, 0) }

SessionHoleCenters == { << 0, 60 >>, << 0, 4 >> }

SessionTextHeights == { 4 }

\* ------------------------------------------------------------ state machine

VARIABLES
  request,  \* the call under way: the function and its arguments
  pc,       \* "called" before the function has run, "returned" after
  ret,      \* what the call returned (or raised), once it has
  world,    \* the objects that outlive a call: the module's default profile,
            \* the caller's own objects, the geometry library's habit
  calls     \* the calls made so far on these objects, with their results

vars == << request, pc, ret, world, calls >>

NoReturn == [ pending |-> TRUE ]

\* The objects a caller holds before its first call.
InitialWorld(polygon, habit) ==
  [ DEFAULT_CONSTRAINTS |-> DEFAULT_CONSTRAINTS,
    constraints  |-> NarrowRange,
    compositions |-> SessionCompositions,
    polygon      |-> polygon,
    geos         |-> habit ]

Init ==
  /\ request \in Requests
  /\ pc = "called"
  /\ ret = NoReturn
  /\ world = InitialWorld(PointBuffer(0, 0, 80),
                          [ contains |-> FALSE, near |-> FALSE ])
  /\ calls = << >>

CallComposeMedal ==
  /\ pc = "called"
  /\ request.fn = "compose_medal"
  /\ \E lib \in ComposeLibAnswers(request.composition, request.constraints) :
       ret' = compose_medal(request.composition, request.constraints, lib)
  /\ pc' = "returned"
  /\ UNCHANGED << request, world, calls >>

CallValidateMedalShape ==
  /\ pc = "called"
  /\ request.fn = "validate_medal_shape"
  /\ ret' = validate_medal_shape(request.polygon, request.constraints)
  /\ pc' = "returned"
  /\ UNCHANGED << request, world, calls >>

CallValidateRibbonHole ==
  /\ pc = "called"
  /\ request.fn = "validate_ribbon_hole"
  /\ \E lib \in LibAnswers(request.polygon, request.hole_center,
                            request.constraints) :
       ret' = validate_ribbon_hole(request.polygon, request.hole_center,
                                   request.constraints, lib)
  /\ pc' = "returned"
  /\ UNCHANGED << request, world, calls >>

CallValidateEngravingText ==
  /\ pc = "called"
  /\ request.fn = "validate_engraving_text"
  /\ ret' = validate_engraving_text(request.text_height, request.constraints)
  /\ pc' = "returned"
  /\ UNCHANGED << request, world, calls >>

CallGetMotif ==
  /\ pc = "called"
  /\ request.fn = "get_motif"
  /\ ret' = get_motif(request.motif_type, request.params)
  /\ pc' = "returned"
  /\ UNCHANGED << request, world, calls >>

CallGetShape ==
  /\ pc = "called"
  /\ request.fn = "get_shape"
  /\ ret' = get_shape(request.shape_type, request.params)
  /\ pc' = "returned"
  /\ UNCHANGED << request, world, calls >>

CallCreateGear ==
  /\ pc = "called"
  /\ request.fn = "create_gear"
  /\ ret' = create_gear_points(request.outer_diameter, request.n_teeth)
  /\ pc' = "returned"
  /\ UNCHANGED << request, world, calls >>

CallCreateSvgMedal ==
  /\ pc = "called"
  /\ request.fn = "create_svg_medal"
  /\ ret' = create_svg_medal(request.medal)
  /\ pc' = "returned"
  /\ UNCHANGED << request, world, calls >>

CallRenderProductionSvg ==
  /\ pc = "called"
  /\ request.fn = "render_production_svg"
  /\ ret' = render_production_svg(request.medal)
  /\ pc' = "returned"
  /\ UNCHANGED << request, world, calls >>

CallGetAiSuggestions ==
  /\ pc = "called"
  /\ request.fn = "get_ai_suggestions"
  /\ ret' = get_ai_suggestions(request.has_anthropic, request.api_key,
                               request.env_key, request.api,
                               request.event_name, request.year)
  /\ pc' = "returned"
  /\ UNCHANGED << request, world, calls >>

CallSuggestionToCompositionParams ==
  /\ pc = "called"
  /\ request.fn = "suggestion_to_composition_params"
  /\ ret' = suggestion_to_composition_params(request.suggestion)
  /\ pc' = "returned"
  /\ UNCHANGED << request, world, calls >>

CallAiMode ==
  /\ pc = "called"
  /\ request.fn = "ai_mode"
  /\ ret' = ai_mode(request.has_anthropic, request.env_key, request.api,
                    request.raw, request.has_cairosvg)
  /\ pc' = "returned"
  /\ UNCHANGED << request, world, calls >>

Next ==
  \/ CallComposeMedal
  \/ CallValidateMedalShape
  \/ CallValidateRibbonHole
  \/ CallValidateEngravingText
  \/ CallGetMotif
  \/ CallGetShape
  \/ CallCreateGear
  \/ CallCreateSvgMedal
  \/ CallRenderProductionSvg
  \/ CallGetAiSuggestions
  \/ CallSuggestionToCompositionParams
  \/ CallAiMode

Spec == Init /\ [][Next]_vars

\* A caller making several calls in a row on the objects it holds.
SessionInit ==
  /\ world \in { InitialWorld(polygon, habit) :
                   polygon \in SessionPolygons,
                   habit \in [ contains : BOOLEAN, near : BOOLEAN ] }
  /\ calls = << >>
  /\ request = [ fn |-> "none" ]
  /\ pc = "returned"
  /\ ret = NoReturn

\* The profile a call uses: the one passed, or the module's default through
\* the default argument.
SessionConstraints(passed) ==
  IF passed THEN world.constraints ELSE world.DEFAULT_CONSTRAINTS

\* What a call leaves in the constraints object it used.
WorldAfter(passed, after) ==
  IF passed
  THEN [ world EXCEPT !.constraints = after ]
  ELSE [ world EXCEPT !.DEFAULT_CONSTRAINTS = after ]

SessionComposeMedal ==
  /\ Len(calls) < MaxCalls
  /\ \E id \in DOMAIN world.compositions, passed \in BOOLEAN :
       LET composition == world.compositions[id]
           constraints == SessionConstraints(passed)
           composed    ==
             compose_medal(composition, constraints,
                           ComposeGeosAnswer(composition, constraints,
                                             world.geos))
           outline     ==
             get_shape(composition.shape_type, composition.shape_params)
           checks      ==
             IF Raised(composed)
             THEN << >>
             ELSE << ChecksAfterCompose(
                       validate_medal_shape(outline, constraints),
                       HoleValidation(composition, outline, constraints,
                                      ComposeGeosAnswer(composition,
                                                        constraints,
                                                        world.geos)),
                       TextValidations(composition.texts, constraints)) >>
           after_c     == CompositionAfterCompose(composition, composed)
           after_k     == ConstraintsAfterCompose(composition, constraints)
       IN  /\ request' = [ fn |-> "compose_medal",
                           composition |-> composition,
                           constraints |-> constraints ]
           /\ ret' = composed
           /\ calls' = Append(calls,
                              [ fn |-> "compose_medal", object |-> id,
                                passed |-> passed,
                                args |-> << composition, constraints >>,
                                args_after |-> << after_c, after_k >>,
                                checks_after |-> checks,
                                result |-> composed ])
           /\ world' = [ WorldAfter(passed, after_k) EXCEPT
                           !.compositions[id] = after_c ]
  /\ pc' = "returned"

SessionValidateMedalShape ==
  /\ Len(calls) < MaxCalls
  /\ \E passed \in BOOLEAN :
       LET constraints == SessionConstraints(passed)
           result  == validate_medal_shape(world.polygon, constraints)
           after_p == PolygonAfterValidate(world.polygon)
           after_k == ConstraintsAfterValidate(constraints)
       IN  /\ request' = [ fn |-> "validate_medal_shape",
                           polygon |-> world.polygon,
                           constraints |-> constraints ]
           /\ ret' = result
           /\ calls' = Append(calls,
                              [ fn |-> "validate_medal_shape", object |-> 0,
                                passed |-> passed,
                                args |-> << world.polygon, constraints >>,
                                args_after |-> << after_p, after_k >>,
                                checks_after |-> << >>,
                                result |-> result ])
           /\ world' = [ WorldAfter(passed, after_k) EXCEPT
                           !.polygon = after_p ]
  /\ pc' = "returned"

SessionValidateRibbonHole ==
  /\ Len(calls) < MaxCalls
  /\ \E passed \in BOOLEAN, hole_center \in SessionHoleCenters :
       LET constraints == SessionConstraints(passed)
           result  ==
             validate_ribbon_hole(world.polygon, hole_center, constraints,
                                  GeosAnswer(world.polygon, hole_center,
                                             constraints, world.geos))
           after_p == PolygonAfterValidate(world.polygon)
           after_k == ConstraintsAfterValidate(constraints)
       IN  /\ request' = [ fn |-> "validate_ribbon_hole",
                           polygon |-> world.polygon,
                           hole_center |-> hole_center,
                           constraints |-> constraints ]
           /\ ret' = result
           /\ calls' = Append(calls,
                              [ fn |-> "validate_ribbon_hole", object |-> 0,
                                passed |-> passed,
                                args |-> << world.polygon, hole_center,
                                            constraints >>,
                                args_after |-> << after_p, hole_center,
                                                  after_k >>,
                                checks_after |-> << >>,
                                result |-> result ])
           /\ world' = [ WorldAfter(passed, after_k) EXCEPT
                           !.polygon = after_p ]
  /\ pc' = "returned"

SessionValidateEngravingText ==
  /\ Len(calls) < MaxCalls
  /\ \E passed \in BOOLEAN, text_height \in SessionTextHeights :
       LET constraints == SessionConstraints(passed)
           result  == validate_engraving_text(text_height, constraints)
           after_k == ConstraintsAfterValidate(constraints)
       IN  /\ request' = [ fn |-> "validate_engraving_text",
                           text_height |-> text_height,
                           constraints |-> constraints ]
           /\ ret' = result
           /\ calls' = Append(calls,
                              [ fn |-> "validate_engraving_text",
                                object |-> 0, passed |-> passed,
                                args |-> << text_height, constraints >>,
                                args_after |-> << text_height, after_k >>,
                                checks_after |-> << >>,
                                result |-> result ])
           /\ world' = WorldAfter(passed, after_k)
  /\ pc' = "returned"

SessionNext ==
  \/ SessionComposeMedal
  \/ SessionValidateMedalShape
  \/ SessionValidateRibbonHole
  \/ SessionValidateEngravingText

SessionSpec == SessionInit /\ [][SessionNext]_vars

\* ------------------------------------------------------------------- claims

Returned(fn) == pc = "returned" /\ request.fn = fn

\* compose_medal has returned a ComposedMedal.
Composed == Returned("compose_medal") /\ ~Raised(ret)

Msgs(entries) == { entries[i].msg : i \in DOMAIN entries }

CountMsg(entries, msg) ==
  Cardinality({ i \in DOMAIN entries : entries[i].msg = msg })

\* C1: every ValidationResult the three validators and compose_medal produce
\* has is_valid true exactly when its error list is empty, whatever its
\* warnings; and ComposedMedal.is_valid equals validation_result.is_valid.
C1_IsValidIffNoErrors ==
  /\ \A fn \in { "validate_medal_shape", "validate_ribbon_hole",
                 "validate_engraving_text" } :
       Returned(fn) => (ret.is_valid <=> Len(ret.errors) = 0)
  /\ Composed =>
       /\ ret.validation_result.is_valid
            <=> Len(ret.validation_result.errors) = 0
       /\ ret.is_valid = ret.validation_result.is_valid

\* A composed medal that is valid although it carries warnings.
C1_Witness ==
  /\ Composed
  /\ ret.is_valid
  /\ Len(ret.validation_result.warnings) >= 2
  /\ Len(ret.validation_result.errors) = 0

\* The number of polylines get_motif returns for each element, summed.
RECURSIVE SumLineCounts(_)
SumLineCounts(motifs) ==
  IF motifs = << >>
  THEN 0
  ELSE Len(get_motif(Head(motifs).motif_type, Head(motifs).params))
         + SumLineCounts(Tail(motifs))

\* C2: for a composition whose shape variant is a MedalShape value,
\* compose_medal returns a ComposedMedal and does not raise; every failed
\* check is an entry of the returned error list; and the hole is resolved,
\* every motif generated and every text placed whatever failed before.
C2_FailuresRecordedNotRaised ==
  (Returned("compose_medal")
     /\ request.composition.shape_type \in MedalShape) =>
    LET c      == request.composition
        k      == request.constraints
        o      == ret.outline
        errs   == Msgs(ret.validation_result.errors)
        w      == o.maxx - o.minx
        h      == o.maxy - o.miny
        larger == IF w >= h THEN w ELSE h
    IN  /\ ~Raised(ret)
        /\ ~o.valid => "Geometrie invalide" \in errs
        /\ (o.valid /\ w > k.max_width) => "Largeur > max" \in errs
        /\ (o.valid /\ h > k.max_height) => "Hauteur > max" \in errs
        /\ (o.valid /\ larger < k.min_medal_diameter)
             => "Medaille trop petite" \in errs
        /\ (o.valid /\ larger > k.max_medal_diameter)
             => "Medaille trop grande" \in errs
        /\ (o.valid /\ ErodedIsEmpty(o, k.min_bridge_width))
             => "Forme trop fine" \in errs
        /\ c.ribbon_hole =>
             /\ ret.ribbon_hole_center # None
             /\ (o.valid /\ ~ContainsDisc(o, ret.ribbon_hole_center[1],
                                          ret.ribbon_hole_center[2],
                                          k.ribbon_hole_diameter))
                  => "Trou sort de la medaille" \in errs
             /\ (o.valid /\ DistanceLess(o, ret.ribbon_hole_center[1],
                                         ret.ribbon_hole_center[2],
                                         k.ribbon_hole_diameter
                                           + 2 * k.ribbon_hole_min_margin))
                  => "Trou trop pres du bord" \in errs
        /\ \A i \in DOMAIN c.texts :
             c.texts[i].font_size < k.min_text_height
               => Entry("Texte trop petit", c.texts[i].font_size)
                    \in { ret.validation_result.errors[j] :
                            j \in DOMAIN ret.validation_result.errors }
        /\ Len(ret.texts) = Len(c.texts)
        /\ Len(ret.motif_lines) = SumLineCounts(c.motifs)

\* A composition whose outline, hole and text checks all fail, and whose
\* hole and text are resolved all the same.
C2_Witness ==
  /\ Composed
  /\ { "Medaille trop petite", "Trou sort de la medaille",
       "Trou trop pres du bord", "Texte trop petit" }
       \subseteq Msgs(ret.validation_result.errors)
  /\ ret.ribbon_hole_center # None
  /\ Len(ret.texts) >= 1
  /\ Len(ret.motif_lines) >= 1

\* A composition whose outline check fails and whose motifs and texts are
\* all generated.
C2_WitnessMotifs ==
  /\ Composed
  /\ "Medaille trop petite" \in Msgs(ret.validation_result.errors)
  /\ Len(ret.motif_lines) = 7
  /\ Len(ret.texts) = 3

\* The results the hole check may have given for the returned design: none
\* when no hole is asked, else validate_ribbon_hole at the returned center.
HoleResults ==
  IF request.composition.ribbon_hole
  THEN { validate_ribbon_hole(ret.outline, ret.ribbon_hole_center,
                              request.constraints, lib) :
           lib \in LibAnswers(ret.outline, ret.ribbon_hole_center,
                              request.constraints) }
  ELSE { ValidationResult(TRUE, << >>, << >>) }

\* C3: the returned error list is the outline check's errors, then the hole
\* check's (when a hole is asked), then each text element's in declaration
\* order, with nothing dropped, duplicated or reordered; the warning list
\* likewise.
C3_ListsConcatenatedInOrder ==
  Composed =>
    LET texts    == request.composition.texts
        m        == request.constraints.min_text_height
        E        == ret.validation_result.errors
        W        == ret.validation_result.warnings
        shape    == validate_medal_shape(ret.outline, request.constraints)
        small(i) == texts[i].font_size < m
        low(i)   == ~small(i) /\ 2 * texts[i].font_size < 3 * m
        rankE(i) == Cardinality({ j \in 1 .. i : small(j) })
        rankW(i) == Cardinality({ j \in 1 .. i : low(j) })
    IN  \E hole \in HoleResults :
          LET SE == Len(shape.errors)
              HE == Len(hole.errors)
              SW == Len(shape.warnings)
              HW == Len(hole.warnings)
          IN  /\ Len(E) = SE + HE + rankE(Len(texts))
              /\ \A n \in 1 .. SE : E[n] = shape.errors[n]
              /\ \A n \in 1 .. HE : E[SE + n] = hole.errors[n]
              /\ \A i \in DOMAIN texts :
                   small(i) =>
                     E[SE + HE + rankE(i)]
                       = Entry("Texte trop petit", texts[i].font_size)
              /\ Len(W) = SW + HW + rankW(Len(texts))
              /\ \A n \in 1 .. SW : W[n] = shape.warnings[n]
              /\ \A n \in 1 .. HW : W[SW + n] = hole.warnings[n]
              /\ \A i \in DOMAIN texts :
                   low(i) =>
                     W[SW + HW + rankW(i)]
                       = Entry("Texte petit", texts[i].font_size)

\* A composed design with errors of the outline, of the hole and of two text
\* elements of different heights, and warnings of the outline.
C3_Witness ==
  /\ Composed
  /\ ret.outline.valid
  /\ Len(validate_medal_shape(ret.outline, request.constraints).errors) >= 1
  /\ "Trou trop pres du bord" \in Msgs(ret.validation_result.errors)
  /\ CountMsg(ret.validation_result.errors, "Texte trop petit") = 2
  /\ request.composition.texts[1].font_size
       # request.composition.texts[2].font_size
  /\ Len(validate_medal_shape(ret.outline, request.constraints).warnings) >= 1

\* C4: validate_ribbon_hole reports the containment error exactly when the
\* disc of radius ribbon_hole_diameter / 2 around the center is not inside the
\* outline, and the too-close error exactly when the center's distance to the
\* boundary is strictly below radius + margin; the two are independent (0, 1
\* or 2 errors); with the defaults a contained hole 5 mm from the boundary
\* gets exactly one error and one 7 mm from it gets none.
C4_RibbonHoleErrors ==
  (Returned("validate_ribbon_hole") /\ request.polygon.valid) =>
    LET p    == request.polygon
        x    == request.hole_center[1]
        y    == request.hole_center[2]
        d    == request.constraints.ribbon_hole_diameter
        min2 == d + 2 * request.constraints.ribbon_hole_min_margin
        errs == Msgs(ret.errors)
        out  == ~ContainsDisc(p, x, y, d)
        near == DistanceLess(p, x, y, min2)
    IN  /\ "Trou sort de la medaille" \in errs <=> out
        /\ "Trou trop pres du bord" \in errs <=> near
        /\ Len(ret.errors) = (IF out THEN 1 ELSE 0) + (IF near THEN 1 ELSE 0)
        /\ Len(ret.warnings) = 0
        \* on the vertical axis of a disc centred at the origin, of diameter
        \* D = p.maxx - p.minx: the hole sticks out when 2|y| + d > D, and twice
        \* the distance to the boundary is |D - 2|y||
        /\ (p = PointBuffer(0, 0, p.maxx) /\ x = 0) =>
             /\ out <=> 2 * Abs(y) + d > p.maxx - p.minx
             /\ near <=> Abs((p.maxx - p.minx) - 2 * Abs(y)) < min2
        /\ (p = PointBuffer(0, 0, 80) /\ request.hole_center = << 0, 70 >>
              /\ request.constraints = DEFAULT_CONSTRAINTS) =>
             ret.errors = << Entry("Trou trop pres du bord", 0) >>
        /\ (p = PointBuffer(0, 0, 80) /\ request.hole_center = << 0, 66 >>
              /\ request.constraints = DEFAULT_CONSTRAINTS) =>
             ret.errors = << >>

\* The hole 5 mm under the top of an 80 mm disc, default constraints: inside
\* the disc, and too close to its edge.
C4_Witness ==
  /\ Returned("validate_ribbon_hole")
  /\ request.polygon = PointBuffer(0, 0, 80)
  /\ request.hole_center = << 0, 70 >>
  /\ request.constraints = DEFAULT_CONSTRAINTS
  /\ Len(ret.errors) = 1

\* The four outcomes of the two independent tests are all met.
C4_WitnessOutsideAndFar ==
  /\ Returned("validate_ribbon_hole")
  /\ request.polygon.valid
  /\ Msgs(ret.errors) = { "Trou sort de la medaille" }

DimensionMsgs ==
  { "Largeur > max", "Hauteur > max", "Medaille trop petite",
    "Medaille trop grande" }

\* C5: for a valid outline validate_medal_shape emits one error for each of
\* the four conditions that holds (width > max_width, height > max_height,
\* larger side < min_medal_diameter, larger side > max_medal_diameter, all
\* strict) and no other dimension error; with the defaults the 80 mm disc has
\* no error and the 30 mm disc exactly the minimum-diameter one.
C5_DimensionErrors ==
  (Returned("validate_medal_shape") /\ request.polygon.valid) =>
    LET p      == request.polygon
        k      == request.constraints
        w      == p.maxx - p.minx
        h      == p.maxy - p.miny
        larger == IF w >= h THEN w ELSE h
        one(c) == IF c THEN 1 ELSE 0
    IN  /\ CountMsg(ret.errors, "Largeur > max") = one(w > k.max_width)
        /\ CountMsg(ret.errors, "Hauteur > max") = one(h > k.max_height)
        /\ CountMsg(ret.errors, "Medaille trop petite")
             = one(larger < k.min_medal_diameter)
        /\ CountMsg(ret.errors, "Medaille trop grande")
             = one(larger > k.max_medal_diameter)
        /\ Msgs(ret.errors) \subseteq DimensionMsgs \cup { "Forme trop fine" }
        /\ (p = PointBuffer(0, 0, 80) /\ k = DEFAULT_CONSTRAINTS) =>
             ret.is_valid /\ ret.errors = << >>
        /\ (p = PointBuffer(0, 0, 30) /\ k = DEFAULT_CONSTRAINTS) =>
             ret.errors = << Entry("Medaille trop petite", 60) >>

\* The 30 mm disc under the default constraints: one error.
C5_Witness ==
  /\ Returned("validate_medal_shape")
  /\ request.polygon = PointBuffer(0, 0, 30)
  /\ request.constraints = DEFAULT_CONSTRAINTS
  /\ Len(ret.errors) = 1

\* An outline wider than the work area and no taller: two dimension errors
\* (width and medal size), none for the height.
C5_WitnessWide ==
  /\ Returned("validate_medal_shape")
  /\ request.polygon.valid
  /\ Msgs(ret.errors) = { "Largeur > max", "Medaille trop grande" }

\* C6: the outline is eroded by min_bridge_width / 2 and exactly one of three
\* outcomes follows: the erosion is empty and the blocking too-thin error is
\* added; or it is not empty, its area is under 30% of the outline's and only
\* the fragility warning is added; or neither is.  The two never come
\* together and the warning alone leaves is_valid true.
C6_ErosionOutcomes ==
  (Returned("validate_medal_shape") /\ request.polygon.valid) =>
    LET p       == request.polygon
        bridge  == request.constraints.min_bridge_width
        w       == p.maxx - p.minx
        h       == p.maxy - p.miny
        thin    == CountMsg(ret.errors, "Forme trop fine")
        fragile == CountMsg(ret.warnings, "Zones fragiles")
        \* erosion by bridge / 2 takes bridge off each dimension
        empty   == w <= bridge \/ h <= bridge
    IN  /\ thin = (IF empty THEN 1 ELSE 0)
        /\ fragile
             = (IF ~empty /\ 10 * ErodedArea28(p, bridge) < 3 * PolyArea28(p)
                THEN 1 ELSE 0)
        /\ thin + fragile <= 1
        /\ "Zones fragiles" \notin Msgs(ret.errors)
        /\ (fragile = 1 /\ Msgs(ret.errors) \cap DimensionMsgs = { })
             => ret.is_valid
        \* a disc of diameter D erodes to one of diameter D - bridge
        /\ p = PointBuffer(0, 0, p.maxx) =>
             (fragile = 1 <=>
                (w > bridge /\ 10 * (w - bridge) * (w - bridge) < 3 * w * w))

\* A valid outline that only gets the fragility warning.
C6_Witness ==
  /\ Returned("validate_medal_shape")
  /\ request.polygon.valid
  /\ "Zones fragiles" \in Msgs(ret.warnings)
  /\ ret.errors = << >>
  /\ ret.is_valid

\* An outline the erosion empties.
C6_WitnessThin ==
  /\ Returned("validate_medal_shape")
  /\ request.polygon.valid
  /\ "Forme trop fine" \in Msgs(ret.errors)
  /\ "Zones fragiles" \notin Msgs(ret.warnings)

\* C7: validate_engraving_text splits heights in three ranges: below m, one
\* error and no warning; from m to below 1.5 * m, no error and one warning;
\* from 1.5 * m, neither.  With m = 3.0 mm: 2.0 mm is an error, 3.0 mm and
\* 4.0 mm a warning, 4.5 mm and 5.0 mm nothing.
C7_TextHeightRanges ==
  Returned("validate_engraving_text") =>
    LET t == request.text_height
        m == request.constraints.min_text_height
        readings == << Len(ret.errors), Len(ret.warnings) >>
    IN  /\ t < m => readings = << 1, 0 >>
        /\ (m <= t /\ 2 * t < 3 * m) => readings = << 0, 1 >>
        /\ 2 * t >= 3 * m => readings = << 0, 0 >>
        /\ request.constraints = DEFAULT_CONSTRAINTS =>
             /\ t = 4 => readings = << 1, 0 >>
             /\ t = 6 => readings = << 0, 1 >>
             /\ t = 8 => readings = << 0, 1 >>
             /\ t = 9 => readings = << 0, 0 >>
             /\ t = 10 => readings = << 0, 0 >>

\* The height 4.5 mm = 1.5 * 3.0 mm, accepted without a warning.
C7_Witness ==
  /\ Returned("validate_engraving_text")
  /\ request.constraints = DEFAULT_CONSTRAINTS
  /\ request.text_height = 9
  /\ ret.errors = << >>
  /\ ret.warnings = << >>

\* C8: when a hole is asked, the resolved center is the explicit position
\* when the composition gives one, (0, 0) included, and otherwise (the middle
\* of the bounding box's min and max x, its max y minus 8 mm); the hole check
\* is run against that center.
C8_HoleCenterResolved ==
  (Composed /\ request.composition.ribbon_hole) =>
    LET c    == request.composition
        k    == request.constraints
        o    == ret.outline
        ctr  == ret.ribbon_hole_center
        errs == Msgs(ret.validation_result.errors)
    IN  /\ c.ribbon_hole_position # None => ctr = c.ribbon_hole_position
        /\ c.ribbon_hole_position = None =>
             /\ Len(ctr) = 2
             /\ 2 * ctr[1] = ret.bounds[1] + ret.bounds[3]
             /\ ctr[2] = ret.bounds[4] - 16
        /\ o.valid =>
             /\ "Trou sort de la medaille" \in errs
                  <=> ~ContainsDisc(o, ctr[1], ctr[2], k.ribbon_hole_diameter)
             /\ "Trou trop pres du bord" \in errs
                  <=> DistanceLess(o, ctr[1], ctr[2],
                                   k.ribbon_hole_diameter
                                     + 2 * k.ribbon_hole_min_margin)

\* The explicit position (0, 0) is the resolved center.
C8_Witness ==
  /\ Composed
  /\ request.composition.ribbon_hole
  /\ request.composition.ribbon_hole_position = << 0, 0 >>
  /\ ret.ribbon_hole_center = << 0, 0 >>

\* No explicit position: the center is 8 mm under the top of the outline.
C8_WitnessAutomatic ==
  /\ Composed
  /\ request.composition.ribbon_hole
  /\ request.composition.ribbon_hole_position = None
  /\ ret.ribbon_hole_center = << 0, 54 >>

\* C9: compose_medal runs the text-height check once for every text element,
\* whatever its anchor: the aggregated result has as many text-height errors
\* as elements with font_size < min_text_height and as many readability
\* warnings as elements with min_text_height <= font_size < 1.5 * that.
C9_TextCheckedOncePerElement ==
  Composed =>
    LET texts == request.composition.texts
        m     == request.constraints.min_text_height
    IN  /\ CountMsg(ret.validation_result.errors, "Texte trop petit")
             = Cardinality({ i \in DOMAIN texts : texts[i].font_size < m })
        /\ CountMsg(ret.validation_result.warnings, "Texte petit")
             = Cardinality({ i \in DOMAIN texts :
                               /\ m <= texts[i].font_size
                               /\ 2 * texts[i].font_size < 3 * m })

\* Two text elements, one on an arc and one straight, both too small.
C9_Witness ==
  /\ Composed
  /\ Len(request.composition.texts) = 2
  /\ request.composition.texts[1].position = "top"
  /\ request.composition.texts[2].position = "around_top"
  /\ CountMsg(ret.validation_result.errors, "Texte trop petit") = 2

\* An arc-anchored element with a low-readability height.
C9_WitnessWarning ==
  /\ Composed
  /\ Len(request.composition.texts) = 1
  /\ request.composition.texts[1].position = "around_bottom"
  /\ CountMsg(ret.validation_result.warnings, "Texte petit") = 1

\* C10: motif_lines is the concatenation, in declaration order, of the
\* polylines get_motif produces for each motif element (each moved by the
\* element's position): its length is the sum of the elements' line counts,
\* 1 + 6 = 7 for the trail preset, and an earlier element's polylines come
\* before a later one's.
C10_MotifLinesConcatenated ==
  Composed =>
    LET motifs   == request.composition.motifs
        lines(i) == get_motif(motifs[i].motif_type, motifs[i].params)
        before(i) == SumLineCounts(SubSeq(motifs, 1, i - 1))
    IN  /\ Len(ret.motif_lines) = before(Len(motifs) + 1)
        /\ \A i \in DOMAIN motifs :
             \A n \in 1 .. Len(lines(i)) :
               ret.motif_lines[before(i) + n]
                 = Translate(lines(i)[n], motifs[i].position[1],
                             motifs[i].position[2])
        /\ request.composition \in TrailCompositions =>
             /\ Len(ret.motif_lines) = 7
             /\ ret.motif_lines[1].motif = "mountains"
             /\ \A n \in 2 .. 7 : ret.motif_lines[n].motif = "trees"

\* The trail preset: one mountain line, then six tree lines.
C10_Witness ==
  /\ Composed
  /\ request.composition \in TrailCompositions
  /\ Len(ret.motif_lines) = 7

\* Two elements of different variants whose lines follow one another.
C10_WitnessTwoElements ==
  /\ Composed
  /\ Len(request.composition.motifs) = 2
  /\ request.composition.motifs[1].motif_type = "finish_line"
  /\ request.composition.motifs[2].motif_type = "waves"
  /\ request.composition.motifs[1].params.width = 36
  /\ Len(ret.motif_lines) = 15 + 2

\* The first index, less one, of the i-th motif element's polylines in
\* motif_lines.
LinesBefore(motifs, i) ==
  SumLineCounts(SubSeq(motifs, 1, i - 1))

\* C11: every point of every polyline of the composed design is the recipe's
\* point moved by the MotifParams offset and by the element's position; each
\* element contributes as many polylines as its recipe draws, each with as
\* many points in the same order; with both offsets zero the points are the
\* recipe's.
C11_MotifPointsTranslated ==
  Composed =>
    LET motifs == request.composition.motifs
    IN  \A i \in DOMAIN motifs :
          LET e      == motifs[i]
              recipe == MotifCreators(e.motif_type, e.params)
              first  == LinesBefore(motifs, i)
          IN  /\ LinesBefore(motifs, i + 1) - first = Len(recipe)
              /\ \A n \in 1 .. Len(recipe) :
                   LET got == ret.motif_lines[first + n].points
                   IN  /\ Len(got) = Len(recipe[n])
                       /\ \A j \in 1 .. Len(got) :
                            /\ got[j][1] = recipe[n][j][1]
                                 + Fine(e.params.offset_x)
                                 + Fine(e.position[1])
                            /\ got[j][2] = recipe[n][j][2]
                                 + Fine(e.params.offset_y)
                                 + Fine(e.position[2])
                       /\ (e.params.offset_x = 0 /\ e.params.offset_y = 0
                             /\ e.position = << 0, 0 >>) => got = recipe[n]

\* Waves generated with a MotifParams offset of (0, -3 mm) and placed at
\* (1 mm, -2 mm): the first point of the first row, (-18 mm, 0) in the recipe,
\* is drawn at (-17 mm, -5 mm).
C11_Witness ==
  /\ Composed
  /\ Len(request.composition.motifs) >= 1
  /\ request.composition.motifs[1].motif_type = "waves"
  /\ request.composition.motifs[1].params.offset_y = -6
  /\ request.composition.motifs[1].position = << 2, -4 >>
  /\ Len(ret.motif_lines) >= 2
  /\ Len(ret.motif_lines[1].points) = 31
  /\ ret.motif_lines[1].points[1] = << Fine(-34), Fine(-10) >>

\* Rays placed at the origin with no offset: the recipe's points, unchanged.
C11_WitnessZeroOffset ==
  /\ Composed
  /\ Len(request.composition.motifs) >= 1
  /\ request.composition.motifs[1].motif_type = "rays"
  /\ request.composition.motifs[1].position = << 0, 0 >>
  /\ Len(ret.motif_lines) >= 12
  /\ ret.motif_lines[1].points = << << 0, Fine(-30) >>, << 0, Fine(-60) >> >>

\* C12: a text anchored top, center or bottom is placed at the middle of the
\* bounding box in x, and in y at 15 mm under its top edge, at its middle, or
\* 10 mm above its bottom edge, moved by the element's offset_y.
C12_StraightTextPlaced ==
  Composed =>
    LET b == ret.bounds
    IN  \A i \in DOMAIN request.composition.texts :
          LET e == request.composition.texts[i]
              t == ret.texts[i]
          IN  /\ e.position \in { "top", "center", "bottom" } =>
                   t.x = (b[1] + b[3]) \div 2
              /\ e.position = "top" => t.y = b[4] - 30 + e.offset_y
              /\ e.position = "center" =>
                   t.y = (b[2] + b[4]) \div 2 + e.offset_y
              /\ e.position = "bottom" => t.y = b[2] + 20 + e.offset_y

\* On the 80 mm by 50 mm rectangle, a top text with offset_y -5 mm lands at
\* (0, 5 mm) and a bottom text with offset_y 5 mm at (0, -10 mm).
C12_Witness ==
  /\ Composed
  /\ ret.bounds = << -80, -50, 80, 50 >>
  /\ Len(request.composition.texts) = 2
  /\ request.composition.texts[1].position = "top"
  /\ request.composition.texts[1].offset_y = -10
  /\ ret.texts[1].x = 0
  /\ ret.texts[1].y = 10
  /\ request.composition.texts[2].position = "bottom"
  /\ request.composition.texts[2].offset_y = 10
  /\ ret.texts[2].y = -20

\* A centered text with offset_y 5 mm on the 70 mm disc lands at (0, 5 mm).
C12_WitnessCenter ==
  /\ Composed
  /\ ret.bounds = << -70, -70, 70, 70 >>
  /\ Len(request.composition.texts) >= 1
  /\ request.composition.texts[1].position = "center"
  /\ request.composition.texts[1].offset_y = 10
  /\ ret.texts[1].x = 0
  /\ ret.texts[1].y = 10

\* C13: a text anchored around_top or around_bottom is placed at the middle
\* of the bounding box whatever its offset_y, is marked curved, starts at 180
\* degrees (top) or 0 degrees (bottom), and takes the element's curve radius
\* whenever one is given, whatever its value, and half the bounding box's
\* width less 8 mm only when none is given.
C13_ArcTextPlaced ==
  Composed =>
    LET b == ret.bounds
    IN  \A i \in DOMAIN request.composition.texts :
          LET e == request.composition.texts[i]
              t == ret.texts[i]
          IN  e.position \in { "around_top", "around_bottom" } =>
                /\ t.x = (b[1] + b[3]) \div 2
                /\ t.y = (b[2] + b[4]) \div 2
                /\ t.curved
                /\ t.start_angle
                     = IF e.position = "around_top" THEN << 180 >> ELSE << 0 >>
                /\ t.curve_radius
                     = IF e.curve_radius # None
                       THEN e.curve_radius
                       ELSE << (b[3] - b[1]) \div 2 - 16 >>

\* Point (x, y) is in the interior of a valid outline: not on its boundary
\* and not beyond it.
StrictlyInside(p, x, y) ==
  IF InCornerZone(p, x, y)
  THEN CornerDist2Sq(p, x, y) < (2 * p.corner) * (2 * p.corner)
  ELSE Max2(QX2(p, x), QY2(p, y)) < 2 * p.corner

\* C14: for the trail preset at a diameter from 40 mm to 120 mm, the hole
\* center compose_medal resolves lies strictly inside the outline.
C14_TrailHoleInside ==
  (Composed /\ request.composition \in TrailCompositions) =>
    /\ ret.ribbon_hole_center # None
    /\ StrictlyInside(ret.outline, ret.ribbon_hole_center[1],
                      ret.ribbon_hole_center[2])

\* The 40 mm trail medal: the hole center is 8 mm under the top of the disc,
\* at (0, 12 mm).
C14_Witness ==
  /\ Composed
  /\ request.composition \in TrailCompositions
  /\ request.composition.shape_params.width = 80
  /\ ret.outline = PointBuffer(0, 0, 40)
  /\ ret.ribbon_hole_center = << 0, 24 >>

\* The 120 mm trail medal: the hole center is at (0, 52 mm).
C14_WitnessLargest ==
  /\ Composed
  /\ request.composition \in TrailCompositions
  /\ request.composition.shape_params.width = 240
  /\ ret.ribbon_hole_center = << 0, 104 >>

\* Calls i and j were given identical inputs: the same function on equal
\* arguments, the profile either left to the default both times or passed
\* with equal fields both times.
SameInputs(i, j) ==
  /\ calls[i].fn = calls[j].fn
  /\ calls[i].passed = calls[j].passed
  /\ IF calls[i].passed
     THEN calls[i].args = calls[j].args
     ELSE SubSeq(calls[i].args, 1, Len(calls[i].args) - 1)
            = SubSeq(calls[j].args, 1, Len(calls[j].args) - 1)

C16_WitnessValidators ==
  /\ Len(calls) = 3
  /\ calls[1].fn = "validate_medal_shape"
  /\ calls[2].fn = "validate_ribbon_hole"
  /\ calls[3].fn = "validate_engraving_text"
  /\ \A i \in 1 .. 3 : calls[i].passed
  /\ world.constraints = NarrowRange
  /\ world.polygon \in SessionPolygons

RECURSIVE RecognizedLineCount(_)
\* The polylines the recognized variants among these motif elements draw.
RecognizedLineCount(motifs) ==
  IF motifs = << >>
  THEN 0
  ELSE (IF Head(motifs).motif_type \in MotifType
        THEN MotifLineCount(Head(motifs).motif_type, Head(motifs).params)
        ELSE 0)
         + RecognizedLineCount(Tail(motifs))

\* The messages the three validators can put in a result.
ValidatorMsgs ==
  { "Geometrie invalide", "Largeur > max", "Hauteur > max",
    "Medaille trop petite", "Medaille trop grande", "Forme trop fine",
    "Zones fragiles", "Surface tres petite", "Trou sort de la medaille",
    "Trou trop pres du bord", "Texte trop petit", "Texte petit" }

\* C17: get_motif on a variant that is not a MotifType value returns an empty
\* list and raises nothing; a composition holding such an element gets no
\* polyline for it (only the recognized elements' lines) and no error or
\* warning other than the validators' own.
C17_UnknownMotifEmpty ==
  /\ (Returned("get_motif") /\ request.motif_type \notin MotifType) =>
       ret = << >>
  /\ Composed =>
       /\ Len(ret.motif_lines)
            = RecognizedLineCount(request.composition.motifs)
       /\ \A n \in DOMAIN ret.motif_lines :
            ret.motif_lines[n].motif \in MotifType
       /\ Msgs(ret.validation_result.errors)
            \cup Msgs(ret.validation_result.warnings) \subseteq ValidatorMsgs

\* get_motif("spiral", ...) with an offset has returned the empty list.
C17_Witness ==
  /\ Returned("get_motif")
  /\ request.motif_type = "spiral"
  /\ request.params.offset_x = 4
  /\ ret = << >>

\* A valid design composed of a spiral and the chevrons: the chevrons' three
\* lines alone, and no error.
C17_WitnessComposed ==
  /\ Composed
  /\ Len(request.composition.motifs) = 2
  /\ request.composition.motifs[1].motif_type = "spiral"
  /\ request.composition.motifs[2].motif_type = "chevrons"
  /\ Len(ret.motif_lines) = 3
  /\ ret.is_valid

\* C18: get_shape on a variant that is not a MedalShape value raises and
\* returns no outline; compose_medal on such a composition raises too and
\* returns no design.
C18_UnknownShapeRaises ==
  /\ (Returned("get_shape") /\ request.shape_type \notin MedalShape) =>
       Raised(ret)
  /\ (Returned("compose_medal")
        /\ request.composition.shape_type \notin MedalShape) =>
       /\ Raised(ret)
       /\ "outline" \notin DOMAIN ret

\* compose_medal on a "triangle" with a hole, a motif and a text has raised
\* the KeyError.
C18_Witness ==
  /\ Returned("compose_medal")
  /\ request.composition.shape_type = "triangle"
  /\ request.composition.ribbon_hole
  /\ Len(request.composition.motifs) = 1
  /\ Len(request.composition.texts) = 1
  /\ ret = KeyError

\* get_shape("triangle", ...) has raised the KeyError.
C18_WitnessGetShape ==
  /\ Returned("get_shape")
  /\ request.shape_type = "triangle"
  /\ ret = KeyError

\* C19: for every MedalShape variant and every positive width (the height
\* left to default to it), get_shape with rotation 0 returns a ring of at
\* least 3 vertices and of non-zero area whose bounding box's larger
\* dimension is the requested width.
C19_BoundingBoxIsWidth ==
  (Returned("get_shape")
     /\ request.shape_type \in MedalShape
     /\ request.params.rotation = 0
     /\ request.params.width > 0
     /\ request.params.height = request.params.width) =>
    /\ RingVertices(request.shape_type) >= 3
    /\ PolyWidth(ret) > 0
    /\ PolyHeight(ret) > 0
    /\ Max2(PolyWidth(ret), PolyHeight(ret)) = request.params.width

\* C20 as stated: every polyline get_motif returns has at least 2 points and
\* its first point differs from its last.
C20_AllPolylinesOpen ==
  Returned("get_motif") =>
    \A n \in DOMAIN ret :
      /\ Len(ret[n].points) >= 2
      /\ ret[n].points[1] # ret[n].points[Len(ret[n].points)]

\* C20, amended: every polyline get_motif returns has at least 2 points; its
\* first point differs from its last, except for the tree silhouettes of
\* the trees variant (the odd-ranked lines) and the squares of the
\* finish_line variant, which end on their first point.
C20_PolylinesOpenButSilhouettes ==
  Returned("get_motif") =>
    \A n \in DOMAIN ret :
      /\ Len(ret[n].points) >= 2
      /\ (ret[n].points[1] = ret[n].points[Len(ret[n].points)])
           <=> \/ request.motif_type = "trees" /\ n % 2 = 1
               \/ request.motif_type = "finish_line"

\* get_motif for the trees: the first silhouette has 4 points and ends where
\* it starts, its trunk has 4 points and does not.
C20_Witness ==
  /\ Returned("get_motif")
  /\ request.motif_type = "trees"
  /\ Len(ret) = 6
  /\ Len(ret[1].points) = 4
  /\ ret[1].points[1] = ret[1].points[4]
  /\ Len(ret[2].points) = 4
  /\ ret[2].points[1] # ret[2].points[4]

\* get_motif for an 18 mm by 15 mm finish line: 15 squares of 5 points.
C20_WitnessSquares ==
  /\ Returned("get_motif")
  /\ request.motif_type = "finish_line"
  /\ Len(ret) = 15
  /\ \A n \in 1 .. 15 :
       Len(ret[n].points) = 5 /\ ret[n].points[1] = ret[n].points[5]

\* C21: the gear's ring has 5 vertices per tooth, tooth after tooth: at 0%,
\* 20%, 25%, 75% and 80% of the tooth angle, at the inner, inner, outer,
\* outer and inner radius; so round each tooth the spans are 20% at the
\* inner radius, 5% rising, 50% at the outer radius, 5% falling, and 20% at
\* the inner radius up to the next tooth's first vertex.
C21_GearToothProfile ==
  Returned("create_gear") =>
    LET n_teeth == request.n_teeth
        outer   == request.outer_diameter \div 2
        inner   == outer - ToothDepth
        \* the vertex after the n-th, the ring closing on its first vertex
        \* one full turn later
        next(n) == IF n = Len(ret)
                   THEN [ ret[1] EXCEPT !.angle = @ + 100 * n_teeth ]
                   ELSE ret[n + 1]
        span(n) == next(n).angle - ret[n].angle
    IN  /\ Len(ret) = 5 * n_teeth
        /\ \A i \in 0 .. n_teeth - 1 :
             LET v(k) == ret[5 * i + k]
             IN  /\ << v(1).angle, v(2).angle, v(3).angle, v(4).angle,
                       v(5).angle >>
                      = << 100 * i, 100 * i + 20, 100 * i + 25, 100 * i + 75,
                           100 * i + 80 >>
                 /\ << v(1).radius, v(2).radius, v(3).radius, v(4).radius,
                       v(5).radius >>
                      = << inner, inner, outer, outer, inner >>
                 /\ << span(5 * i + 1), span(5 * i + 2), span(5 * i + 3),
                       span(5 * i + 4), span(5 * i + 5) >>
                      = << 20, 5, 50, 5, 20 >>
                 /\ next(5 * i + 5).radius = inner

\* The 70 mm gear with 12 teeth: 60 vertices, the last tooth's fall ending at
\* 1180 hundredths of a tooth angle, at the inner radius of 30 mm.
C21_Witness ==
  /\ Returned("create_gear")
  /\ request.outer_diameter = 140
  /\ request.n_teeth = 12
  /\ Len(ret) = 60
  /\ ret[60] = [ angle |-> 1180, radius |-> 60 ]
  /\ ret[3] = [ angle |-> 25, radius |-> 70 ]

\* C22: on an outline that is not valid, validate_medal_shape returns at
\* once: is_valid false, the invalid-geometry error alone, no warning.
C22_InvalidOutlineOnlyError ==
  (Returned("validate_medal_shape") /\ ~request.polygon.valid) =>
    /\ ~ret.is_valid
    /\ Len(ret.errors) = 1
    /\ ret.errors[1].msg = "Geometrie invalide"
    /\ ret.warnings = << >>

\* The invalid 8 mm ring, which is also smaller than the smallest medal and
\* than 500 mm^2 of area, checked with the default profile.
C22_Witness ==
  /\ Returned("validate_medal_shape")
  /\ ~request.polygon.valid
  /\ request.constraints = DEFAULT_CONSTRAINTS
  /\ PolyWidth(request.polygon) < request.constraints.min_medal_diameter
  /\ PolyArea28(request.polygon) < 28 * 2000
  /\ Len(ret.errors) = 1
  /\ ret.warnings = << >>

\* C23: when compose_medal returns is_valid true for a composition with a
\* ribbon hole, the hole of the design is within the machine limits: the disc
\* of the returned radius round the returned center lies in the outline, and
\* the center is at least the returned radius plus ribbon_hole_min_margin
\* away from the outline's boundary.
C23_ReturnedHoleWithinLimits ==
  (Composed /\ ret.is_valid /\ request.composition.ribbon_hole) =>
    LET center == ret.ribbon_hole_center
        d      == 2 * ret.ribbon_hole_radius
        min2   == d + 2 * request.constraints.ribbon_hole_min_margin
    IN  /\ ret.ribbon_hole_center # None
        /\ ret.outline.valid
        /\ ContainsDisc(ret.outline, center[1], center[2], d)
        /\ ~DistanceLess(ret.outline, center[1], center[2], min2)

\* C24: in the design compose_medal returns, every text placement flagged
\* curved carries a curve_radius and a start_angle of 0 or 180, and every
\* placement not flagged curved carries neither, whatever the anchor and the
\* element's own curved flag.
C24_CurvedCarriesArc ==
  Composed =>
    \A i \in DOMAIN ret.texts :
      IF ret.texts[i].curved
      THEN /\ ret.texts[i].curve_radius # None
           /\ ret.texts[i].start_angle \in { << 0 >>, << 180 >> }
      ELSE /\ ret.texts[i].curve_radius = None
           /\ ret.texts[i].start_angle = None

\* C25: the production file has one text element per text placement of the
\* design, straight or on an arc, as the preview has.
C25_ProductionHasEveryText ==
  Returned("render_production_svg") =>
    /\ Len(ret.texts) = Len(request.medal.texts)
    /\ \A i \in DOMAIN request.medal.texts :
         ret.texts[i].content = request.medal.texts[i].content

HoleMsgs == { "Trou sort de la medaille", "Trou trop pres du bord" }

\* The entries that do not come from the ribbon-hole check.
WithoutHoleEntries(entries) ==
  LET other(entry) == entry.msg \notin HoleMsgs
  IN  SelectSeq(entries, other)

\* C26: for a composition that asks no ribbon hole, compose_medal returns no
\* hole center and no entry of the hole check, an explicit position being
\* ignored; outline, motif lines, texts, bounds and the other errors and
\* warnings are those of the same composition composed with the hole asked.
C26_NoHoleRequestedNoHole ==
  (Composed /\ ~request.composition.ribbon_hole) =>
    LET asked == [ request.composition EXCEPT !.ribbon_hole = TRUE ]
    IN  /\ ret.ribbon_hole_center = None
        /\ Msgs(ret.validation_result.errors) \cap HoleMsgs = { }
        /\ Msgs(ret.validation_result.warnings) \cap HoleMsgs = { }
        /\ \A lib \in ComposeLibAnswers(asked, request.constraints) :
             LET with == compose_medal(asked, request.constraints, lib)
             IN  /\ ret.outline = with.outline
                 /\ ret.motif_lines = with.motif_lines
                 /\ ret.texts = with.texts
                 /\ ret.bounds = with.bounds
                 /\ ret.validation_result.errors
                      = WithoutHoleEntries(with.validation_result.errors)
                 /\ ret.validation_result.warnings
                      = WithoutHoleEntries(with.validation_result.warnings)

\* A 70 mm disc without a hole whose explicit position, on the edge, would
\* fail the hole check if the hole were asked.
C26_Witness ==
  /\ Composed
  /\ ~request.composition.ribbon_hole
  /\ request.composition.ribbon_hole_position = << 0, 70 >>
  /\ request.composition.shape_type = "circle"
  /\ request.composition.shape_params.width = 140
  /\ request.constraints = DEFAULT_CONSTRAINTS
  /\ ret.is_valid
  /\ ret.ribbon_hole_center = None
  /\ LET asked == [ request.composition EXCEPT !.ribbon_hole = TRUE ]
         with  == compose_medal(asked, request.constraints,
                                [ contains |-> FALSE, near |-> FALSE ])
     IN  /\ ~with.is_valid
         /\ Msgs(with.validation_result.errors) \cap HoleMsgs # { }

\* C27: for the rectangle and rounded_rectangle variants, the corners of the
\* outline get_shape returns are arcs of the corner radius given in the
\* shape parameters, whatever value is given, the default (5 mm, 8 mm) being
\* used only when none is given; and the bounding box is width x height
\* (turned with the outline) whenever 2 * radius <= min(width, height).
C27_GivenCornerRadiusUsed ==
  (Returned("get_shape")
     /\ request.shape_type \in { "rectangle", "rounded_rectangle" }) =>
    LET default == IF request.shape_type = "rectangle" THEN 10 ELSE 16
        radius  == IF request.corner_radius_arg = None
                   THEN default
                   ELSE request.corner_radius_arg[1]
        width   == request.params.width
        height  == request.params.height
        turned  == request.params.rotation % 180 = 90
    IN  /\ ret.corner = radius
        /\ 2 * radius <= Min2(width, height) =>
             /\ PolyWidth(ret) = IF turned THEN height ELSE width
             /\ PolyHeight(ret) = IF turned THEN width ELSE height

\* The call of get_ai_suggestions meets a failure: no package, no key, an
\* exception of the client, no content, or a reply that is not valid JSON
\* or not the object expected.
AiFailure ==
  \/ ~request.has_anthropic
  \/ ~OptStrTruthy(request.api_key) /\ ~OptStrTruthy(request.env_key)
  \/ Raised(BuildResponse(request.api, request.event_name, request.year))

\* C28: get_ai_suggestions never raises: it returns None on every failure,
\* and otherwise an AIResponse carrying exactly 3 suggestions.
C28_NoneOrThreeSuggestions ==
  Returned("get_ai_suggestions") =>
    /\ AiFailure => ret = None
    /\ ~AiFailure =>
         /\ ret # None
         /\ Len(ret[1].suggestions) = 3

\* C30: suggestion_to_composition_params maps a shape name MedalShape lacks
\* to the circle, a primary motif name MotifType lacks to mountains, a
\* secondary motif that is absent, empty or unknown to None, and a name it
\* knows to the variant of that name; get_shape accepts the shape of the
\* composition create_custom_medal builds from the result.
C30_UnknownNamesFallBack ==
  Returned("suggestion_to_composition_params") =>
    LET suggestion  == request.suggestion
        composition == create_custom_medal(ret)
    IN  /\ ret.shape = IF suggestion.shape \in MedalShape
                       THEN suggestion.shape
                       ELSE "circle"
        /\ ret.primary_motif = IF suggestion.primary_motif \in MotifType
                               THEN suggestion.primary_motif
                               ELSE "mountains"
        /\ ret.secondary_motif
             = IF /\ suggestion.secondary_motif # None
                  /\ suggestion.secondary_motif[1] \in MotifType
               THEN suggestion.secondary_motif
               ELSE None
        /\ composition.shape_type = ret.shape
        /\ ~Raised(get_shape(composition.shape_type,
                             composition.shape_params))

\* A suggestion none of whose three names is known.
C30_Witness ==
  /\ Returned("suggestion_to_composition_params")
  /\ request.suggestion.shape = "triangle"
  /\ request.suggestion.primary_motif = "spiral"
  /\ request.suggestion.secondary_motif = << "flames" >>
  /\ ret.shape = "circle"
  /\ ret.primary_motif = "mountains"
  /\ ret.secondary_motif = None
  /\ create_custom_medal(ret).shape_params.width = request.suggestion.diameter

\* A suggestion whose three names are known: a leaf with waves and laurel.
C30_WitnessKnown ==
  /\ Returned("suggestion_to_composition_params")
  /\ request.suggestion.shape = "leaf"
  /\ ret.shape = "leaf"
  /\ ret.primary_motif = "waves"
  /\ ret.secondary_motif = << "laurel" >>
  /\ Len(create_custom_medal(ret).motifs) = 2

\* The suggestions the request of ai_mode returns, None when it fails.
AiModeResponse ==
  get_ai_suggestions(request.has_anthropic, None, request.env_key, request.api,
                     "Trail des Volcans", "2026")

\* The indices the choice selects that the response holds, in increasing
\* order.
AiModeExpected ==
  LET choice == Choice(request.raw)
      n      == Len(AiModeResponse[1].suggestions)
      selected(idx) ==
        /\ idx < n
        /\ \/ choice = "all"
           \/ choice = "1" /\ idx = 0
           \/ choice = "2" /\ idx = 1
           \/ choice = "3" /\ idx = 2
  IN  SelectSeq(<< 0, 1, 2 >>, selected)

\* ai_mode returns None: no package, no response, 'q', or a choice that is
\* none of 'all', '1', '2', '3'.
AiModeGivesUp ==
  \/ ~request.has_anthropic
  \/ AiModeResponse = None
  \/ Choice(request.raw) \notin { "all", "1", "2", "3" }

\* C29: ai_mode composes and renders one medal per selected suggestion that
\* the response holds, in increasing index order ('all' or an empty answer
\* selects 0, 1, 2; '1', '2', '3' that index alone; an index the response
\* does not hold is skipped); without the package, without a response, on
\* 'q' and on an invalid choice it returns None, nothing composed or written.
C29_OneMedalPerSelected ==
  Returned("ai_mode") =>
    IF AiModeGivesUp
    THEN ret.result = None /\ ret.log = << >>
    ELSE /\ ret.result # None
         /\ Len(ret.result[1]) = Len(AiModeExpected)
         /\ Len(ret.log) = 4 * Len(AiModeExpected)
         /\ \A k \in DOMAIN AiModeExpected :
              LET at(j) == ret.log[4 * (k - 1) + j]
              IN  /\ << at(1).op, at(2).op, at(3).op, at(4).op >>
                       = << "compose_medal", "render_medal_svg",
                            "render_production_svg", "render_medal_png" >>
                  /\ \A j \in 1 .. 4 : at(j).index = AiModeExpected[k]
                  /\ at(2).written /\ at(3).written
                  /\ at(4).written = request.has_cairosvg

\* 'all' on a response of 2 suggestions: two medals, index 0 then index 1,
\* index 2 skipped.
C29_Witness ==
  /\ Returned("ai_mode")
  /\ Choice(request.raw) = "all"
  /\ AiModeResponse # None
  /\ Len(AiModeResponse[1].suggestions) = 2
  /\ Len(ret.log) = 8
  /\ ret.log[1].index = 0
  /\ ret.log[5].index = 1
  /\ Len(ret.result[1]) = 2

\* '3' on a response of 2 suggestions: nothing composed, an empty list
\* returned.
C29_WitnessSkipped ==
  /\ Returned("ai_mode")
  /\ request.raw = "3"
  /\ AiModeResponse # None
  /\ Len(AiModeResponse[1].suggestions) = 2
  /\ ret.log = << >>
  /\ ret.result = << << >> >>

\* An invalid choice after a response of 3 suggestions: None.
C29_WitnessInvalid ==
  /\ Returned("ai_mode")
  /\ request.raw = "4"
  /\ AiModeResponse # None
  /\ Len(AiModeResponse[1].suggestions) = 3
  /\ ret = NothingDone

=============================================================================
